---- MODULE Spec2Model ----
(***************************************************************************)
(* State-machine model of the conversational UI assembly core:             *)
(*   examples/assembly/ComponentRegistry.ts  (name -> capability table)    *)
(*   examples/assembly/AssemblyEngine.ts     (AssemblyEngine, LayoutEngine)*)
(*                                                                         *)
(* JavaScript objects are modelled as TLA+ records that hold exactly the   *)
(* properties that are present, so that `x.f === undefined' is             *)
(* `"f" \notin DOMAIN x' and the spread `{...a, ...b}' is Spread(a, b).    *)
(* A JavaScript Map is a sequence of [key, value] entries in insertion     *)
(* order.  Every `await' is an interleaving point: the code between two    *)
(* awaits is one atomic action.  Wall-clock readings (mountedAt,           *)
(* timestamp) are left out of the records: no branch of the code reads     *)
(* them.                                                                   *)
(***************************************************************************)
EXTENDS Integers, Sequences, FiniteSets, TLC

VARIABLES
    regComponents,      \* ComponentRegistry.components : Map<string, ComponentType>
    regMetadata,        \* ComponentRegistry.metadata   : Map<string, ComponentMetadata>
    activeComponents,   \* AssemblyEngine.activeComponents : Map<string, ComponentState>
    currentLayout,      \* LayoutEngine.currentLayout
    updateCallback,     \* AssemblyEngine.updateCallback (Undef when never set)
    calls,              \* the processInstruction invocations, one record per slot
    animations,         \* promises of the animation executor that have not settled
    delivery,           \* callback invocations made by the last step, in order
    settled,            \* promise rejections made by the last step
    subscribed,         \* history: every callback ever passed to onUpdate
    lastAnalysis,       \* the argument of the last mapToUIInstructions call
    lastInstruction,    \* what that call returned (or the error it raised)
    mergeRules,         \* the rules argument of the mergeInstructions call in progress
    mergeIndex,         \* how many of them its forEach has folded into the draft
    registerLog,        \* history: the last register call made for each name
    lastIntent,         \* the argument of the last mapIntentToComponents call
    lastManifest,       \* the manifest that call returned
    store               \* useAssemblyStore: the state of the zustand store

registryVars == <<regComponents, regMetadata, registerLog, lastIntent, lastManifest>>
storeVars    == <<store>>
engineVars   == <<activeComponents, currentLayout, updateCallback, calls,
                  animations, delivery, settled, subscribed>>
mapperVars   == <<lastAnalysis, lastInstruction, mergeRules, mergeIndex>>
vars         == <<regComponents, regMetadata, activeComponents, currentLayout,
                  updateCallback, calls, animations, delivery, settled, subscribed,
                  lastAnalysis, lastInstruction, mergeRules, mergeIndex,
                  registerLog, lastIntent, lastManifest, store>>

(***************************************************************************)
(* Bounds of the model.                                                    *)
(***************************************************************************)
MaxBatch == 2       \* longest components / componentIds list of an instruction
NumCalls == 2       \* processInstruction invocations that can exist at once
MaxOrphans == 1     \* pending promises whose call has already been rejected

CallIds == 1..NumCalls

Undef == "undefined"

(***************************************************************************)
(* JavaScript helpers.                                                     *)
(***************************************************************************)
\* {...a, ...b}
Spread(a, b) ==
    [k \in (DOMAIN a) \cup (DOMAIN b) |-> IF k \in DOMAIN b THEN b[k] ELSE a[k]]

\* obj.f read as a spread operand: spreading undefined adds nothing
FieldOrEmpty(obj, f) == IF f \in DOMAIN obj THEN obj[f] ELSE <<>>

SeqsUpTo(S, n) == UNION {[1..k -> S] : k \in 0..n}

Range(s) == {s[i] : i \in DOMAIN s}

\* Map.prototype.has / get / set / delete / keys / values on the sequence model
MapHas(m, key) == \E i \in DOMAIN m : m[i].key = key

MapIndex(m, key) == CHOOSE i \in DOMAIN m : m[i].key = key /\ \A j \in 1..(i-1) : m[j].key # key

MapGet(m, key) == m[MapIndex(m, key)].value

\* variant of set that never looks for an existing key
MapSetAppend(m, key, value) == Append(m, [key |-> key, value |-> value])

MapSet(m, key, value) ==
    IF MapHas(m, key)
    THEN [m EXCEPT ![MapIndex(m, key)] = [key |-> key, value |-> value]]
    ELSE Append(m, [key |-> key, value |-> value])

MapDelete(m, key) == SelectSeq(m, LAMBDA e : e.key # key)

MapKeys(m) == [i \in DOMAIN m |-> m[i].key]

MapValues(m) == [i \in DOMAIN m |-> m[i].value]

(***************************************************************************)
(* ComponentRegistry                                                       *)
(***************************************************************************)
\* variant that takes every type name as registered
hasAlways(name) == TRUE

\* ComponentRegistry.has
has(name) == MapHas(regComponents, name)

\* ComponentRegistry.get: the capability, or Undef
get(name) == IF MapHas(regComponents, name) THEN MapGet(regComponents, name) ELSE Undef

\* ComponentRegistry.getMetadata
getMetadata(name) == IF MapHas(regMetadata, name) THEN MapGet(regMetadata, name) ELSE Undef

\* ComponentRegistry.getComponentNames
getComponentNames == MapKeys(regComponents)

\* ComponentRegistry.register(name, component, metadata?); metadata = Undef
\* stands for an omitted third argument
register(name, component, metadata) ==
    /\ regComponents' = MapSet(regComponents, name, component)
    /\ regMetadata' = IF metadata # Undef THEN MapSet(regMetadata, name, metadata)
                      ELSE regMetadata

(***************************************************************************)
(* LayoutEngine                                                            *)
(***************************************************************************)
\* variant that sends only the filter panel to the sidebar
SidebarTypesFilterOnly == {"FilterPanel"}

\* ['FilterPanel', 'NavigationPanel'] of the two-column case
SidebarTypes == {"FilterPanel", "NavigationPanel"}

\* variant of the grid with two columns
gridColumnOfTwo(index) == (index % 2) + 1

\* gridColumn: (index % 3) + 1
gridColumn(index) == (index % 3) + 1

\* gridRow: Math.floor(index / 3) + 1
gridRow(index) == (index \div 3) + 1

RECURSIVE MapSetAll(_, _)
MapSetAll(m, entries) ==
    IF entries = <<>> THEN m
    ELSE MapSetAll(MapSet(m, Head(entries).key, Head(entries).value), Tail(entries))

\* components.forEach((component, index) => positions.set(component.id, f(index)))
PositionEach(positions, components, f(_)) ==
    MapSetAll(positions,
              [i \in DOMAIN components |->
                  [key |-> components[i].id, value |-> f(i - 1)]])

\* variant that stacks the new order on the order a component already has
calculatePositionsRelative(components, layout) ==
    PositionEach(<<>>, components,
        LAMBDA index : [area |-> "main",
                        order |-> components[index + 1].position.order + index,
                        width |-> "100%"])

\* LayoutEngine.calculatePositions: the returned Map<string, Position>
calculatePositions(components, layout) ==
    CASE layout = "centered" ->
            PositionEach(<<>>, components,
                LAMBDA index : [area |-> "center", order |-> index,
                                width |-> "100%", maxWidth |-> "600px"])
      [] layout = "two-column" ->
            LET sidebarComponents == SelectSeq(components, LAMBDA c : c.type \in SidebarTypes)
                mainComponents == SelectSeq(components, LAMBDA c : c.type \notin SidebarTypes)
                sidebarDone == PositionEach(<<>>, sidebarComponents,
                    LAMBDA index : [area |-> "sidebar", order |-> index, width |-> "300px"])
            IN PositionEach(sidebarDone, mainComponents,
                    LAMBDA index : [area |-> "main", order |-> index, width |-> "100%"])
      [] layout = "grid" ->
            PositionEach(<<>>, components,
                LAMBDA index : [area |-> "grid", order |-> index, width |-> "auto",
                                gridColumn |-> gridColumn(index),
                                gridRow |-> gridRow(index)])
      [] OTHER ->
            PositionEach(<<>>, components,
                LAMBDA index : [area |-> "main", order |-> index, width |-> "100%"])

(***************************************************************************)
(* AssemblyEngine: state readers                                           *)
(***************************************************************************)
\* AssemblyEngine.getState on the given engine state
getState(active, layout) == [components |-> MapValues(active), layout |-> layout]

\* the callback invocations notifyUpdate makes
notifyUpdate(active, layout) ==
    IF updateCallback # Undef
    THEN <<[to |-> updateCallback, state |-> getState(active, layout)]>>
    ELSE <<>>

(***************************************************************************)
(* The animation executor (AnimationOrchestrator) is an external           *)
(* collaborator: each animateIn / animateOut / animateLayoutChange call    *)
(* returns a promise that the executor later resolves, rejects, or never   *)
(* settles.  A pending promise is a record [kind, id, owner]: owner is the *)
(* call whose Promise.all / await still listens to it, 0 once that call    *)
(* has already been rejected.                                              *)
(***************************************************************************)
Pending(c) == {i \in DOMAIN animations : animations[i].owner = c}

Orphans(anims) == {i \in DOMAIN anims : anims[i].owner = 0}

RemoveAt(s, i) == [j \in 1..(Len(s) - 1) |-> IF j < i THEN s[j] ELSE s[j + 1]]

\* the rejection reason of an animation promise
Reason(a) == <<"AnimationError", a.kind, a.id>>

NoError == <<>>

\* a call record: pc is the position in processInstruction, instr its argument,
\* error the rejection reason, accepted the ids the loop of the operation did
\* not skip (add: inserted, remove: found in the map)
IdleCall == [pc |-> "idle", instr |-> [action |-> "none"], error |-> NoError,
             accepted |-> {}]

NewCall(pc, instruction) ==
    [pc |-> pc, instr |-> instruction, error |-> NoError, accepted |-> {}]

\* a call that has returned to its caller; its argument is garbage by then
DoneCall == [IdleCall EXCEPT !.pc = "done"]

InFlight(c) == calls[c].pc \in {"awaiting", "returned"}

(***************************************************************************)
(* AssemblyEngine.addComponents                                            *)
(***************************************************************************)
\* the for loop of addComponents, run on st = [active, anims]
RECURSIVE AddLoop(_, _, _, _)
AddLoop(components, instruction, owner, st) ==
    IF components = <<>> THEN st
    ELSE LET component == Head(components) IN
         IF ~has(component.type)
         THEN AddLoop(Tail(components), instruction, owner, st)
         ELSE LET state == Spread(component, [status |-> "mounting"])
                  withState == MapSet(st.active, component.id, state)
                  withAnim ==
                      IF "animation" \in DOMAIN instruction
                      THEN Append(st.anims, [kind |-> "in", id |-> component.id,
                                             owner |-> owner])
                      ELSE st.anims
              IN AddLoop(Tail(components), instruction, owner,
                         [active |-> withState, anims |-> withAnim])

\* the ids of the components the loop does not skip
Accepted(components) ==
    {components[k].id : k \in {j \in DOMAIN components : has(components[j].type)}}

\* components.forEach(...) after the barrier: every listed id that is in the
\* map gets status 'mounted'
RECURSIVE MarkMounted(_, _)
MarkMounted(active, components) ==
    IF components = <<>> THEN active
    ELSE LET id == Head(components).id
             next == IF MapHas(active, id)
                     THEN MapSet(active, id,
                                 [MapGet(active, id) EXCEPT !.status = "mounted"])
                     ELSE active
         IN MarkMounted(next, Tail(components))

\* processInstruction, case 'add', up to `await Promise.all(animationPromises)'
StartAdd(c, instruction) ==
    /\ calls[c].pc = "idle"
    /\ instruction.action = "add"
    /\ "components" \in DOMAIN instruction
    /\ LET r == AddLoop(instruction.components, instruction, c,
                        [active |-> activeComponents, anims |-> animations])
       IN /\ activeComponents' = r.active
          /\ animations' = r.anims
    /\ calls' = [calls EXCEPT ![c] =
                    [NewCall("awaiting", instruction) EXCEPT
                        !.accepted = Accepted(instruction.components)]]
    /\ delivery' = <<>>
    /\ settled' = <<>>
    /\ UNCHANGED <<mapperVars, storeVars, currentLayout, updateCallback, subscribed, registryVars>>

\* variant whose barrier waits until no animation at all is pending
ResumeAddWhenQuiet(c) ==
    /\ calls[c].pc = "awaiting"
    /\ calls[c].instr.action = "add"
    /\ animations = <<>>
    /\ activeComponents' = MarkMounted(activeComponents, calls[c].instr.components)
    /\ calls' = [calls EXCEPT ![c].pc = "returned"]
    /\ delivery' = <<>>
    /\ settled' = <<>>
    /\ UNCHANGED <<mapperVars, storeVars, currentLayout, updateCallback, animations, subscribed, registryVars>>

\* addComponents after the barrier, up to the return into processInstruction
ResumeAdd(c) ==
    /\ calls[c].pc = "awaiting"
    /\ calls[c].instr.action = "add"
    /\ Pending(c) = {}
    /\ activeComponents' = MarkMounted(activeComponents, calls[c].instr.components)
    /\ calls' = [calls EXCEPT ![c].pc = "returned"]
    /\ delivery' = <<>>
    /\ settled' = <<>>
    /\ UNCHANGED <<mapperVars, storeVars, currentLayout, updateCallback, animations, subscribed, registryVars>>

(***************************************************************************)
(* AssemblyEngine.removeComponents                                         *)
(***************************************************************************)
\* variant without the `if (!component) continue' guard
RECURSIVE RemoveLoopUnguarded(_, _, _, _)
RemoveLoopUnguarded(componentIds, instruction, owner, st) ==
    IF componentIds = <<>> THEN st
    ELSE LET id == Head(componentIds)
             unmounting == IF MapHas(st.active, id)
                           THEN MapSet(st.active, id,
                                    [MapGet(st.active, id) EXCEPT !.status = "unmounting"])
                           ELSE st.active
         IN IF "animation" \in DOMAIN instruction
            THEN RemoveLoopUnguarded(Tail(componentIds), instruction, owner,
                     [active |-> unmounting,
                      anims |-> Append(st.anims, [kind |-> "out", id |-> id,
                                                  owner |-> owner])])
            ELSE RemoveLoopUnguarded(Tail(componentIds), instruction, owner,
                     [active |-> MapDelete(unmounting, id), anims |-> st.anims])

\* the for loop of removeComponents, run on st = [active, anims]
RECURSIVE RemoveLoop(_, _, _, _)
RemoveLoop(componentIds, instruction, owner, st) ==
    IF componentIds = <<>> THEN st
    ELSE LET id == Head(componentIds) IN
         IF ~MapHas(st.active, id)
         THEN RemoveLoop(Tail(componentIds), instruction, owner, st)
         ELSE LET unmounting == MapSet(st.active, id,
                                  [MapGet(st.active, id) EXCEPT !.status = "unmounting"])
              IN IF "animation" \in DOMAIN instruction
                 THEN RemoveLoop(Tail(componentIds), instruction, owner,
                          [active |-> unmounting,
                           anims |-> Append(st.anims, [kind |-> "out", id |-> id,
                                                       owner |-> owner])])
                 ELSE RemoveLoop(Tail(componentIds), instruction, owner,
                          [active |-> MapDelete(unmounting, id), anims |-> st.anims])

\* the listed ids the loop does not skip
Found(componentIds) ==
    {componentIds[k] : k \in {j \in DOMAIN componentIds :
                                  MapHas(activeComponents, componentIds[j])}}

\* processInstruction, case 'remove', up to `await Promise.all(animationPromises)'
StartRemove(c, instruction) ==
    /\ calls[c].pc = "idle"
    /\ instruction.action = "remove"
    /\ "componentIds" \in DOMAIN instruction
    /\ LET r == RemoveLoop(instruction.componentIds, instruction, c,
                           [active |-> activeComponents, anims |-> animations])
       IN /\ activeComponents' = r.active
          /\ animations' = r.anims
    /\ calls' = [calls EXCEPT ![c] =
                    [NewCall("awaiting", instruction) EXCEPT
                        !.accepted = Found(instruction.componentIds)]]
    /\ delivery' = <<>>
    /\ settled' = <<>>
    /\ UNCHANGED <<mapperVars, storeVars, currentLayout, updateCallback, subscribed, registryVars>>

\* removeComponents after the barrier
ResumeRemove(c) ==
    /\ calls[c].pc = "awaiting"
    /\ calls[c].instr.action = "remove"
    /\ Pending(c) = {}
    /\ calls' = [calls EXCEPT ![c].pc = "returned"]
    /\ delivery' = <<>>
    /\ settled' = <<>>
    /\ UNCHANGED <<mapperVars, storeVars, activeComponents, currentLayout, updateCallback, animations,
                   subscribed, registryVars>>

(***************************************************************************)
(* AssemblyEngine.clear                                                    *)
(***************************************************************************)
\* the animation configuration clear passes to removeComponents
ClearAnimation == [enter |-> "fadeOut", exit |-> "fadeOut", duration |-> 3]

\* clear up to the await of removeComponents: every id of the map is
\* unmounted with an exit animation; the call record keeps the ids
StartClear(c) ==
    /\ calls[c].pc = "idle"
    /\ LET ids == MapKeys(activeComponents)
           removal == [action |-> "clear", componentIds |-> ids,
                       animation |-> ClearAnimation]
           r == RemoveLoop(ids, removal, c,
                           [active |-> activeComponents, anims |-> animations])
       IN /\ activeComponents' = r.active
          /\ animations' = r.anims
          /\ calls' = [calls EXCEPT ![c] =
                          [NewCall("awaiting", removal) EXCEPT !.accepted = Found(ids)]]
    /\ delivery' = <<>>
    /\ settled' = <<>>
    /\ UNCHANGED <<mapperVars, storeVars, currentLayout, updateCallback, subscribed, registryVars>>

\* clear after the barrier of removeComponents: it returns to its caller
ResumeClear(c) ==
    /\ calls[c].pc = "awaiting"
    /\ calls[c].instr.action = "clear"
    /\ Pending(c) = {}
    /\ calls' = [calls EXCEPT ![c].pc = "done"]
    /\ delivery' = <<>>
    /\ settled' = <<>>
    /\ UNCHANGED <<mapperVars, storeVars, activeComponents, currentLayout, updateCallback, animations,
                   subscribed, registryVars>>

(***************************************************************************)
(* AssemblyEngine.updateComponents                                         *)
(***************************************************************************)
RECURSIVE UpdateLoop(_, _)
UpdateLoop(updates, active) ==
    IF updates = <<>> THEN active
    ELSE LET update == Head(updates) IN
         IF ~MapHas(active, update.id)
         THEN UpdateLoop(Tail(updates), active)
         ELSE LET component == MapGet(active, update.id)
                  withProps == [component EXCEPT
                      !.props = Spread(component.props, FieldOrEmpty(update, "props"))]
                  withPosition ==
                      IF "position" \in DOMAIN update
                      THEN [withProps EXCEPT
                               !.position = Spread(component.position, update.position)]
                      ELSE withProps
              IN UpdateLoop(Tail(updates), MapSet(active, update.id, withPosition))

\* processInstruction, case 'update': updateComponents has no await of its own
StartUpdate(c, instruction) ==
    /\ calls[c].pc = "idle"
    /\ instruction.action = "update"
    /\ "updates" \in DOMAIN instruction
    /\ activeComponents' = UpdateLoop(instruction.updates, activeComponents)
    /\ calls' = [calls EXCEPT ![c] =
                    NewCall("returned", instruction)]
    /\ delivery' = <<>>
    /\ settled' = <<>>
    /\ UNCHANGED <<mapperVars, storeVars, currentLayout, updateCallback, animations, subscribed, registryVars>>

(***************************************************************************)
(* AssemblyEngine.reorganizeLayout                                         *)
(***************************************************************************)
\* positions.forEach((position, componentId) => ...)
RECURSIVE ApplyPositions(_, _)
ApplyPositions(active, positions) ==
    IF positions = <<>> THEN active
    ELSE LET e == Head(positions)
             next == IF MapHas(active, e.key)
                     THEN MapSet(active, e.key,
                                 [MapGet(active, e.key) EXCEPT !.position = e.value])
                     ELSE active
         IN ApplyPositions(next, Tail(positions))

\* instruction.layout, undefined when the property is absent
LayoutOf(instruction) ==
    IF "layout" \in DOMAIN instruction THEN instruction.layout ELSE Undef

\* reorganizeLayout up to its await: the map with the positions the layout
\* engine computes for its values
reorganizeLayout(active, newLayout) ==
    ApplyPositions(active, calculatePositions(MapValues(active), newLayout))

\* variant whose layout engine does not remember the key it was given
StartReorganizeForgetful(c, instruction) ==
    /\ calls[c].pc = "idle"
    /\ instruction.action = "reorganize"
    /\ activeComponents' = reorganizeLayout(activeComponents, LayoutOf(instruction))
    /\ animations' = Append(animations, [kind |-> "layout", id |-> "", owner |-> c])
    /\ calls' = [calls EXCEPT ![c] =
                    NewCall("awaiting", instruction)]
    /\ delivery' = <<>>
    /\ settled' = <<>>
    /\ UNCHANGED <<mapperVars, storeVars, currentLayout, updateCallback, subscribed, registryVars>>

\* processInstruction, case 'reorganize', up to `await animateLayoutChange(...)';
\* calculatePositions stores the layout key in the layout engine
StartReorganize(c, instruction) ==
    /\ calls[c].pc = "idle"
    /\ instruction.action = "reorganize"
    /\ activeComponents' = reorganizeLayout(activeComponents, LayoutOf(instruction))
    /\ currentLayout' = LayoutOf(instruction)
    /\ animations' = Append(animations, [kind |-> "layout", id |-> "", owner |-> c])
    /\ calls' = [calls EXCEPT ![c] =
                    NewCall("awaiting", instruction)]
    /\ delivery' = <<>>
    /\ settled' = <<>>
    /\ UNCHANGED <<mapperVars, storeVars, updateCallback, subscribed, registryVars>>

\* reorganizeLayout after the await
ResumeReorganize(c) ==
    /\ calls[c].pc = "awaiting"
    /\ calls[c].instr.action = "reorganize"
    /\ Pending(c) = {}
    /\ calls' = [calls EXCEPT ![c].pc = "returned"]
    /\ delivery' = <<>>
    /\ settled' = <<>>
    /\ UNCHANGED <<mapperVars, storeVars, activeComponents, currentLayout, updateCallback, animations,
                   subscribed, registryVars>>

(***************************************************************************)
(* AssemblyEngine.processInstruction: the remaining paths                  *)
(***************************************************************************)
KnownActions == {"add", "remove", "update", "reorganize"}

\* the payload property each action iterates over
PayloadOf(action) ==
    CASE action = "add" -> "components"
      [] action = "remove" -> "componentIds"
      [] action = "update" -> "updates"

\* variant whose default branch empties the map (an unknown action taken as
\* a request to start over)
DefaultBranchClears(active) == <<>>

\* what the default branch of the switch does to the map: it only warns
DefaultBranch(active) == active

\* variant whose default branch returns before notifyUpdate
StartUnknownSilent(c, instruction) ==
    /\ calls[c].pc = "idle"
    /\ instruction.action \notin KnownActions
    /\ activeComponents' = DefaultBranch(activeComponents)
    /\ delivery' = <<>>
    /\ settled' = <<>>
    /\ calls' = [calls EXCEPT ![c] = NewCall("done", instruction)]
    /\ UNCHANGED <<mapperVars, storeVars, currentLayout, updateCallback, animations, subscribed, registryVars>>

\* default branch of the switch: warn, then notifyUpdate in the same turn; the
\* call returns at once and its record keeps the instruction it dropped
StartUnknown(c, instruction) ==
    /\ calls[c].pc = "idle"
    /\ instruction.action \notin KnownActions
    /\ activeComponents' = DefaultBranch(activeComponents)
    /\ delivery' = notifyUpdate(activeComponents', currentLayout)
    /\ settled' = <<>>
    /\ calls' = [calls EXCEPT ![c] = NewCall("done", instruction)]
    /\ UNCHANGED <<mapperVars, storeVars, currentLayout, updateCallback, animations, subscribed, registryVars>>

\* `for (... of undefined)' throws a TypeError; the catch block rethrows it
StartThrow(c, instruction) ==
    /\ calls[c].pc = "idle"
    /\ instruction.action \in {"add", "remove", "update"}
    /\ PayloadOf(instruction.action) \notin DOMAIN instruction
    /\ calls' = [calls EXCEPT ![c] =
                    [NewCall("rejected", instruction) EXCEPT !.error = <<"TypeError">>]]
    /\ delivery' = <<>>
    /\ settled' = <<>>
    /\ UNCHANGED <<mapperVars, storeVars, activeComponents, currentLayout, updateCallback, animations,
                   subscribed, registryVars>>

\* line 46: this.notifyUpdate() after the awaited operation has returned
Notify(c) ==
    /\ calls[c].pc = "returned"
    /\ delivery' = notifyUpdate(activeComponents, currentLayout)
    /\ settled' = <<>>
    /\ calls' = [calls EXCEPT ![c] = DoneCall]
    /\ UNCHANGED <<mapperVars, storeVars, activeComponents, currentLayout, updateCallback, animations,
                   subscribed, registryVars>>

(***************************************************************************)
(* Settlement of an animation promise                                      *)
(***************************************************************************)
\* variant whose exit animations have no .then handler
ResolveAnimationKeep(i) ==
    /\ i \in DOMAIN animations
    /\ animations' = RemoveAt(animations, i)
    /\ delivery' = <<>>
    /\ settled' = <<>>
    /\ UNCHANGED <<mapperVars, storeVars, activeComponents, currentLayout, updateCallback, calls,
                   subscribed, registryVars>>

\* the executor resolves promise i; for an exit animation the .then handler
\* of removeComponents deletes the id
ResolveAnimation(i) ==
    /\ i \in DOMAIN animations
    /\ activeComponents' = IF animations[i].kind = "out"
                           THEN MapDelete(activeComponents, animations[i].id)
                           ELSE activeComponents
    /\ animations' = RemoveAt(animations, i)
    /\ delivery' = <<>>
    /\ settled' = <<>>
    /\ UNCHANGED <<mapperVars, storeVars, currentLayout, updateCallback, calls, subscribed, registryVars>>

\* variant whose catch block takes the components of the failed batch out
CatchKeepsRollback(active, instruction) ==
    IF "components" \in DOMAIN instruction
    THEN SelectSeq(active, LAMBDA e :
             \A k \in DOMAIN instruction.components : instruction.components[k].id # e.key)
    ELSE active

\* what the catch block of processInstruction leaves in the map: it logs and
\* rethrows, nothing is undone
CatchKeeps(active, instruction) == active

\* the executor rejects promise i: Promise.all (or the await) of the owning
\* call rejects at once, the call rejects with that reason, and the other
\* promises of the batch stay pending without a listener
RejectAnimation(i) ==
    /\ i \in DOMAIN animations
    /\ LET a == animations[i]
           rest == RemoveAt(animations, i)
       IN IF a.owner \in CallIds
          THEN /\ calls' = [calls EXCEPT ![a.owner].pc = "rejected",
                                         ![a.owner].error = Reason(a)]
               /\ animations' = [j \in DOMAIN rest |->
                                    IF rest[j].owner = a.owner
                                    THEN [rest[j] EXCEPT !.owner = 0]
                                    ELSE rest[j]]
               /\ activeComponents' = CatchKeeps(activeComponents, calls[a.owner].instr)
          ELSE /\ calls' = calls
               /\ animations' = rest
               /\ activeComponents' = activeComponents
    /\ Cardinality(Orphans(animations')) <= MaxOrphans
    /\ delivery' = <<>>
    /\ settled' = <<[promise |-> animations[i], outcome |-> "rejected"]>>
    /\ UNCHANGED <<mapperVars, storeVars, currentLayout, updateCallback, subscribed, registryVars>>

(***************************************************************************)
(* AssemblyEngine.onUpdate and ComponentRegistry.register as operations    *)
(***************************************************************************)
OnUpdate(callback) ==
    /\ updateCallback' = callback
    /\ subscribed' = subscribed \cup {callback}
    /\ delivery' = <<>>
    /\ settled' = <<>>
    /\ UNCHANGED <<mapperVars, storeVars, activeComponents, currentLayout, calls, animations, registryVars>>

Register(name, component, metadata) ==
    /\ register(name, component, metadata)
    /\ registerLog' = {e \in registerLog : e.name # name}
                          \cup {[name |-> name, component |-> component,
                                 metadata |-> metadata]}
    /\ UNCHANGED <<lastIntent, lastManifest>>
    /\ delivery' = <<>>
    /\ settled' = <<>>
    /\ UNCHANGED <<mapperVars, storeVars, activeComponents, currentLayout, updateCallback, calls,
                   animations, subscribed>>

\* before the first mapIntentToComponents call there is no argument and no result
NoIntent == [type |-> "none", confidence |-> 0]

NoManifest == [action |-> "none"]

\* the initial state of useAssemblyStore: the fields the component actions,
\* setLayout, setTheme and reset write
InitialStore ==
    [activeComponents |-> <<>>, layout |-> "default", theme |-> "light",
     conversationId |-> "conv_1000_a"]

\* before the first mapToUIInstructions call there is no argument and no result
NoAnalysis == [intent |-> [type |-> "none", confidence |-> 0]]

NoInstruction == [action |-> "none"]

(***************************************************************************)
(* Initial state: `new AssemblyEngine()' over an empty registry            *)
(***************************************************************************)
Init ==
    /\ regComponents = <<>>
    /\ regMetadata = <<>>
    /\ registerLog = {}
    /\ lastIntent = NoIntent
    /\ lastManifest = NoManifest
    /\ store = InitialStore
    /\ activeComponents = <<>>
    /\ currentLayout = "default"
    /\ updateCallback = Undef
    /\ calls = [c \in CallIds |-> IdleCall]
    /\ animations = <<>>
    /\ delivery = <<>>
    /\ settled = <<>>
    /\ subscribed = {}
    /\ lastAnalysis = NoAnalysis
    /\ lastInstruction = NoInstruction
    /\ mergeRules = <<>>
    /\ mergeIndex = 0

(***************************************************************************)
(* Inputs of the engine specification                                      *)
(***************************************************************************)
Ids == {"c1", "c2"}

\* "ProductGrid" gets registered, "HologramView" never does
RegisteredNames == {"ProductGrid"}
Types == {"ProductGrid", "HologramView"}

Callbacks == {"cb1"}

Anim0 == [enter |-> "fadeIn", exit |-> "fadeOut", duration |-> 3]

Instance(id, type) ==
    [id |-> id, type |-> type, props |-> [title |-> "a"],
     position |-> [area |-> "main", order |-> 0], animationDelay |-> 0]

Instances ==
    {Instance("c1", "ProductGrid"), Instance("c2", "ProductGrid"),
     Instance("c2", "HologramView")}

Updates == {[id |-> "c1", props |-> [title |-> "b"]]}

AddInstructions ==
    {[action |-> "add", components |-> cs] : cs \in SeqsUpTo(Instances, 1)}
    \cup {[action |-> "add", components |-> cs, animation |-> Anim0] :
             cs \in SeqsUpTo(Instances, MaxBatch)}

RemoveInstructions ==
    {[action |-> "remove", componentIds |-> ids] : ids \in SeqsUpTo(Ids, 1)}
    \cup {[action |-> "remove", componentIds |-> ids, animation |-> Anim0] :
             ids \in SeqsUpTo(Ids, MaxBatch)}

UpdateInstructions ==
    {[action |-> "update", updates |-> us] : us \in SeqsUpTo(Updates, 1)}

ReorganizeInstructions ==
    {[action |-> "reorganize", layout |-> l] : l \in {"grid"}}

OtherInstructions ==
    {[action |-> "replace"], [action |-> "add"]}

Instructions ==
    AddInstructions \cup RemoveInstructions \cup UpdateInstructions
    \cup ReorganizeInstructions \cup OtherInstructions

(***************************************************************************)
(* The caller: its `await processInstruction(...)' resumes with the        *)
(* outcome, after which it may issue the next call.                        *)
(***************************************************************************)
Return(c) ==
    /\ calls[c].pc \in {"done", "rejected"}
    /\ calls' = [calls EXCEPT ![c] = IdleCall]
    /\ delivery' = <<>>
    /\ settled' = <<>>
    /\ UNCHANGED <<mapperVars, storeVars, activeComponents, currentLayout, updateCallback, animations,
                   subscribed, registryVars>>

(***************************************************************************)
(* Serialized use of the engine: a new processInstruction call is issued   *)
(* only when no earlier call is in flight (apply, await, apply next).      *)
(***************************************************************************)
NoCallInFlight == \A c \in CallIds : ~InFlight(c)

Start(c, instruction) ==
    \/ StartAdd(c, instruction)
    \/ StartRemove(c, instruction)
    \/ StartUpdate(c, instruction)
    \/ StartReorganize(c, instruction)
    \/ StartUnknown(c, instruction)
    \/ StartThrow(c, instruction)

Continue(c) ==
    \/ ResumeAdd(c)
    \/ ResumeRemove(c)
    \/ ResumeReorganize(c)
    \/ Notify(c)
    \/ Return(c)

Next ==
    \/ (NoCallInFlight /\ \E instruction \in Instructions : Start(1, instruction))
    \/ \E c \in CallIds : Continue(c)
    \/ \E i \in DOMAIN animations : ResolveAnimation(i)
    \/ \E i \in DOMAIN animations : RejectAnimation(i)
    \/ \E cb \in Callbacks : OnUpdate(cb)
    \/ \E name \in RegisteredNames : Register(name, "ProductGridView", Undef)

Spec == Init /\ [][Next]_vars

\* the same engine with an animation executor that never rejects
NextResolving ==
    \/ (NoCallInFlight /\ \E instruction \in Instructions : Start(1, instruction))
    \/ \E c \in CallIds : Continue(c)
    \/ \E i \in DOMAIN animations : ResolveAnimation(i)
    \/ \E cb \in Callbacks : OnUpdate(cb)
    \/ \E name \in RegisteredNames : Register(name, "ProductGridView", Undef)

SpecResolving == Init /\ [][NextResolving]_vars

\* the same engine with two callbacks passed to onUpdate
SubscriberCallbacks == {"cb1", "cb2"}

SubscriberInstructions ==
    {[action |-> "add", components |-> <<Instance("c1", "ProductGrid")>>],
     [action |-> "add", components |-> <<Instance("c2", "ProductGrid")>>,
      animation |-> Anim0],
     [action |-> "remove", componentIds |-> <<"c1">>],
     [action |-> "remove", componentIds |-> <<"c2">>, animation |-> Anim0],
     [action |-> "update", updates |-> <<[id |-> "c1", props |-> [title |-> "b"]]>>],
     [action |-> "reorganize", layout |-> "grid"],
     [action |-> "replace"],
     [action |-> "remove"]}

NextSubscribers ==
    \/ (NoCallInFlight /\ \E instruction \in SubscriberInstructions : Start(1, instruction))
    \/ \E c \in CallIds : Continue(c)
    \/ \E i \in DOMAIN animations : ResolveAnimation(i)
    \/ \E i \in DOMAIN animations : RejectAnimation(i)
    \/ \E cb \in SubscriberCallbacks : OnUpdate(cb)
    \/ \E name \in RegisteredNames : Register(name, "ProductGridView", Undef)

SpecSubscribers == Init /\ [][NextSubscribers]_vars

(***************************************************************************)
(* Un-awaited use of the engine: the caller issues a processInstruction    *)
(* call while an earlier one is still waiting for its animations.  The     *)
(* engine has no queue and no lock: the new call runs at once, up to its   *)
(* own first await.                                                        *)
(***************************************************************************)
OverlappingInstructions ==
    {[action |-> "add", components |-> <<Instance("c1", "ProductGrid")>>,
      animation |-> Anim0],
     [action |-> "add", components |-> <<Instance("c2", "ProductGrid")>>],
     [action |-> "remove", componentIds |-> <<"c1">>, animation |-> Anim0],
     [action |-> "update", updates |-> <<[id |-> "c1", props |-> [title |-> "b"]]>>],
     [action |-> "reorganize", layout |-> "grid"],
     [action |-> "replace"],
     [action |-> "update"]}

NextOverlapping ==
    \/ \E c \in CallIds : \E instruction \in OverlappingInstructions :
          Start(c, instruction)
    \/ \E c \in CallIds : Continue(c)
    \/ \E i \in DOMAIN animations : ResolveAnimation(i)
    \/ \E i \in DOMAIN animations : RejectAnimation(i)
    \/ \E cb \in Callbacks : OnUpdate(cb)
    \/ \E name \in RegisteredNames : Register(name, "ProductGridView", Undef)

SpecOverlapping == Init /\ [][NextOverlapping]_vars

(***************************************************************************)
(* Scheduling.  The continuation of an async function whose awaited        *)
(* promise has settled is a microtask, and the event loop runs every       *)
(* queued microtask: a step of a call that stays enabled is taken.  The    *)
(* executor is assumed to settle every promise a call still listens to;    *)
(* promises whose call has been rejected may stay pending for ever.        *)
(***************************************************************************)
Settle(c) == \E i \in Pending(c) : ResolveAnimation(i) \/ RejectAnimation(i)

Fairness == \A c \in CallIds : WF_vars(Continue(c)) /\ WF_vars(Settle(c))

\* serialized use with batches of two animated components
BatchInstructions ==
    {[action |-> "add",
      components |-> <<Instance("c1", "ProductGrid"), Instance("c2", "ProductGrid")>>,
      animation |-> Anim0],
     [action |-> "remove", componentIds |-> <<"c1", "c2">>, animation |-> Anim0],
     [action |-> "update", updates |-> <<[id |-> "c1", props |-> [title |-> "b"]]>>],
     [action |-> "reorganize", layout |-> "grid"],
     [action |-> "replace"],
     [action |-> "remove"]}

NextBatches ==
    \/ (NoCallInFlight /\ \E instruction \in BatchInstructions : Start(1, instruction))
    \/ \E c \in CallIds : Continue(c)
    \/ \E i \in DOMAIN animations : ResolveAnimation(i)
    \/ \E i \in DOMAIN animations : RejectAnimation(i)
    \/ \E cb \in Callbacks : OnUpdate(cb)
    \/ \E name \in RegisteredNames : Register(name, "ProductGridView", Undef)

SpecBatchesFair == Init /\ [][NextBatches]_vars /\ Fairness

(***************************************************************************)
(* Serialized use with Update instructions of every shape: props only,     *)
(* props with a new key and a partial position, a partial position only,   *)
(* several records for one id, records for an id that may be absent.       *)
(***************************************************************************)
UpdateRecords ==
    {[id |-> "c1", props |-> [title |-> "b"]],
     [id |-> "c1", props |-> [subtitle |-> "s"], position |-> [order |-> 7]],
     [id |-> "c2", position |-> [area |-> "sidebar"]]}

UpdatingInstructions ==
    {[action |-> "add", components |-> <<Instance("c1", "ProductGrid")>>,
      animation |-> Anim0],
     [action |-> "add", components |-> <<Instance("c2", "ProductGrid")>>],
     [action |-> "remove", componentIds |-> <<"c1">>, animation |-> Anim0],
     [action |-> "reorganize", layout |-> "grid"],
     [action |-> "replace"],
     [action |-> "update"]}
    \cup {[action |-> "update", updates |-> us] : us \in SeqsUpTo(UpdateRecords, MaxBatch)}

NextUpdating ==
    \/ (NoCallInFlight /\ \E instruction \in UpdatingInstructions : Start(1, instruction))
    \/ \E c \in CallIds : Continue(c)
    \/ \E i \in DOMAIN animations : ResolveAnimation(i)
    \/ \E i \in DOMAIN animations : RejectAnimation(i)
    \/ \E cb \in Callbacks : OnUpdate(cb)
    \/ \E name \in RegisteredNames : Register(name, "ProductGridView", Undef)

SpecUpdating == Init /\ [][NextUpdating]_vars

(***************************************************************************)
(* Serialized use with Reorganize instructions of every layout key, over   *)
(* components of a main type and of a sidebar type.                        *)
(***************************************************************************)
LayoutNames == {"ProductGrid", "FilterPanel"}

LayoutKeys == {"centered", "two-column", "grid", "masonry"}

ReorganizingInstructions ==
    {[action |-> "add", components |-> <<Instance("c1", "ProductGrid")>>,
      animation |-> Anim0],
     [action |-> "add", components |-> <<Instance("c2", "FilterPanel")>>],
     [action |-> "remove", componentIds |-> <<"c1">>, animation |-> Anim0],
     [action |-> "update", updates |-> <<[id |-> "c1", position |-> [order |-> 7]]>>],
     [action |-> "reorganize"],
     [action |-> "replace"],
     [action |-> "remove"]}
    \cup {[action |-> "reorganize", layout |-> l] : l \in LayoutKeys}

NextReorganizing ==
    \/ (NoCallInFlight /\ \E instruction \in ReorganizingInstructions : Start(1, instruction))
    \/ \E c \in CallIds : Continue(c)
    \/ \E i \in DOMAIN animations : ResolveAnimation(i)
    \/ \E i \in DOMAIN animations : RejectAnimation(i)
    \/ \E cb \in Callbacks : OnUpdate(cb)
    \/ \E name \in LayoutNames : Register(name, "View", Undef)

SpecReorganizing == Init /\ [][NextReorganizing]_vars

(***************************************************************************)
(* The registry on its own: register calls with capabilities and optional  *)
(* metadata drawn from the sets below.                                     *)
(***************************************************************************)
RegistryNames == {"ProductGrid", "FilterPanel"}

Capabilities == {"GridView", "GridViewV2"}

\* ComponentMetadata objects, told apart by their description
Metadatas == {"a grid of products", "a grid of products, second edition"}

NextRegistry ==
    \E name \in RegistryNames : \E component \in Capabilities :
        \E metadata \in Metadatas \cup {Undef} : Register(name, component, metadata)

SpecRegistry == Init /\ [][NextRegistry]_vars

(***************************************************************************)
(* ComponentRegistry.mapIntentToComponents                                 *)
(*                                                                         *)
(* An Intent is a record [type, confidence, entities?, context?] with the  *)
(* confidence in hundredths; durations, staggers and animation delays are  *)
(* in tenths of a second and the ease control points in hundredths.        *)
(* `clock' is the sequence of readings Date.now() returns to the call.     *)
(***************************************************************************)
\* ComponentRegistry.getIntentMapping; contextual is listed in the order of
\* Object.entries
getIntentMapping ==
    [greeting |->
        [components |-> <<"ConversationPanel">>, layout |-> "centered",
         minConfidence |-> 50],
     product_browse |->
        [components |-> <<"ProductGrid", "FilterPanel">>, layout |-> "two-column",
         minConfidence |-> 70,
         contextual |->
            <<[key |-> "with_preferences",
               components |-> <<"PersonalizedRecommendations">>],
              [key |-> "luxury_focus", components |-> <<"BrandStoryPanel">>]>>],
     product_detail |->
        [components |-> <<"DetailView", "MediaCarousel", "CraftsmanshipStory">>,
         layout |-> "full-width", minConfidence |-> 80],
     style_advice |->
        [components |-> <<"StyleGuide", "OutfitBuilder", "ConversationPanel">>,
         layout |-> "three-panel", minConfidence |-> 75],
     store_visit |->
        [components |-> <<"StoreLocator", "AppointmentScheduler", "VirtualTour">>,
         layout |-> "split-view", minConfidence |-> 80]]

\* intent.entities?.f || fallback
EntityOr(intent, f, fallback) ==
    IF "entities" \in DOMAIN intent /\ f \in DOMAIN intent.entities
    THEN intent.entities[f]
    ELSE fallback

\* ComponentRegistry.getPropsForComponent
getPropsForComponent(componentName, intent) ==
    CASE componentName = "ProductGrid" ->
            [filters |-> EntityOr(intent, "filters", <<>>),
             sortBy |-> EntityOr(intent, "sortPreference", "featured"),
             itemsPerPage |-> 12]
      [] componentName = "FilterPanel" ->
            [availableFilters |-> <<"category", "color", "size", "price">>,
             activeFilters |-> EntityOr(intent, "filters", <<>>),
             position |-> "sidebar"]
      [] componentName = "DetailView" ->
            [productId |-> EntityOr(intent, "productId", Undef),
             showCraftsmanship |-> TRUE, enable360View |-> TRUE]
      [] OTHER -> <<>>

\* config.components.forEach((componentName, index) => components.push(...))
BaseComponents(intent, config, clock) ==
    [k \in DOMAIN config.components |->
        [id |-> config.components[k] \o "-" \o ToString(clock[k]) \o "-"
                   \o ToString(k - 1),
         type |-> config.components[k],
         props |-> getPropsForComponent(config.components[k], intent),
         position |-> [order |-> k - 1],
         animationDelay |-> k - 1]]

\* contextComponents.forEach((componentName, index) => components.push(...)):
\* components.length is read at each push
RECURSIVE PushContextual(_, _, _, _, _)
PushContextual(names, index, intent, clock, components) ==
    IF names = <<>> THEN components
    ELSE PushContextual(Tail(names), index + 1, intent, clock,
            Append(components,
                [id |-> Head(names) \o "-" \o ToString(clock[Len(components) + 1])
                           \o "-ctx-" \o ToString(index),
                 type |-> Head(names),
                 props |-> getPropsForComponent(Head(names), intent),
                 position |-> [order |-> Len(components) + index],
                 animationDelay |-> Len(components) + index]))

\* Object.entries(config.contextual).forEach(...): the entries whose key is
\* truthy in intent.context
RECURSIVE ContextualComponents(_, _, _, _)
ContextualComponents(entries, intent, clock, components) ==
    IF entries = <<>> THEN components
    ELSE LET entry == Head(entries)
             chosen == /\ entry.key \in DOMAIN intent.context
                       /\ intent.context[entry.key]
         IN ContextualComponents(Tail(entries), intent, clock,
                IF chosen
                THEN PushContextual(entry.components, 0, intent, clock, components)
                ELSE components)

\* ComponentRegistry.selectComponentsForIntent
selectComponentsForIntent(intent, config, clock) ==
    LET base == BaseComponents(intent, config, clock)
    IN IF "contextual" \in DOMAIN config /\ "context" \in DOMAIN intent
       THEN ContextualComponents(config.contextual, intent, clock, base)
       ELSE base

\* ComponentRegistry.determineLayout
determineLayout(components) ==
    LET componentCount == Len(components)
        hasFilters == \E k \in DOMAIN components : components[k].type = "FilterPanel"
        hasDetail == \E k \in DOMAIN components : components[k].type = "DetailView"
    IN CASE hasDetail -> "full-width"
         [] ~hasDetail /\ hasFilters /\ componentCount > 1 -> "two-column"
         [] ~hasDetail /\ ~(hasFilters /\ componentCount > 1) /\ componentCount = 1 ->
               "centered"
         [] ~hasDetail /\ ~(hasFilters /\ componentCount > 1) /\ componentCount > 3 ->
               "grid"
         [] OTHER -> "default"

\* ComponentRegistry.getAnimationConfig
getAnimationConfig(confidence) ==
    [enter |-> IF confidence > 80 THEN "fadeInUp" ELSE "fadeIn",
     exit |-> "fadeOut",
     duration |-> IF confidence > 80 THEN 5 ELSE 3,
     stagger |-> 1,
     ease |-> <<25, 10, 25, 100>>]

\* ComponentRegistry.getDefaultManifest
getDefaultManifest(clock) ==
    [action |-> "add_components",
     components |->
        <<[id |-> "conversation-" \o ToString(clock[1]),
           type |-> "ConversationPanel",
           props |-> [suggestions |->
               <<"Show me evening wear", "I need an outfit for a gallery opening",
                 "What's new this season?">>],
           position |-> [order |-> 0],
           animationDelay |-> 0]>>,
     layout |-> "centered",
     animations |-> [enter |-> "fadeIn", exit |-> "fadeOut", duration |-> 3]]

\* ComponentRegistry.mapIntentToComponents
mapIntentToComponents(intent, clock) ==
    IF intent.type \notin DOMAIN getIntentMapping
    THEN getDefaultManifest(clock)
    ELSE LET config == getIntentMapping[intent.type]
             components == selectComponentsForIntent(intent, config, clock)
         IN [action |-> "add_components",
             components |-> components,
             layout |-> determineLayout(components),
             animations |-> getAnimationConfig(intent.confidence),
             priority |-> IF intent.confidence > 80 THEN "high" ELSE "normal"]

\* intents handed to the registry
ManifestIntentTypes ==
    {"greeting", "product_browse", "product_detail", "style_advice", "store_visit",
     "smalltalk"}

ManifestConfidences == {30, 50, 70, 75, 80, 90}

ManifestEntities ==
    {[productId |-> "p1"], [filters |-> [color |-> "black"], sortPreference |-> "newest"]}

ManifestContexts ==
    {<<>>, [with_preferences |-> TRUE],
     [with_preferences |-> TRUE, luxury_focus |-> TRUE],
     [with_preferences |-> FALSE, luxury_focus |-> TRUE]}

Intents ==
    LET plain == [type : ManifestIntentTypes, confidence : ManifestConfidences]
    IN plain
       \cup {Spread(i, [entities |-> e]) : i \in plain, e \in ManifestEntities}
       \cup {Spread(i, [context |-> x]) : i \in plain, x \in ManifestContexts}
       \cup {Spread(i, [entities |-> e, context |-> x]) :
                i \in plain, e \in ManifestEntities, x \in ManifestContexts}

\* the readings of Date.now() during one call: the clock does not run backwards
Clocks == {k \in [1..4 -> {1000, 1001}] : \A i \in 1..3 : k[i] <= k[i + 1]}

InitManifest ==
    /\ regComponents = <<>>
    /\ regMetadata = <<>>
    /\ registerLog = {}
    /\ lastIntent \in Intents
    /\ lastManifest = NoManifest
    /\ store = InitialStore
    /\ activeComponents = <<>>
    /\ currentLayout = "default"
    /\ updateCallback = Undef
    /\ calls = [c \in CallIds |-> IdleCall]
    /\ animations = <<>>
    /\ delivery = <<>>
    /\ settled = <<>>
    /\ subscribed = {}
    /\ lastAnalysis = NoAnalysis
    /\ lastInstruction = NoInstruction
    /\ mergeRules = <<>>
    /\ mergeIndex = 0

MapIntentToComponents(clock) ==
    /\ lastManifest = NoManifest
    /\ lastManifest' = mapIntentToComponents(lastIntent, clock)
    /\ UNCHANGED <<regComponents, regMetadata, registerLog, lastIntent, mapperVars,
                   engineVars, storeVars>>

NextManifest == \E clock \in Clocks : MapIntentToComponents(clock)

SpecManifest == InitManifest /\ [][NextManifest]_vars

(***************************************************************************)
(* Serialized use of the engine with clear() among the operations          *)
(***************************************************************************)
ClearingInstructions ==
    {[action |-> "add", components |-> <<Instance("c1", "ProductGrid")>>,
      animation |-> Anim0],
     [action |-> "add", components |-> <<Instance("c2", "ProductGrid")>>]}

NextClearing ==
    \/ (NoCallInFlight /\ \E instruction \in ClearingInstructions :
                              StartAdd(1, instruction))
    \/ (NoCallInFlight /\ StartClear(1))
    \/ \E c \in CallIds : ResumeAdd(c)
    \/ \E c \in CallIds : ResumeClear(c)
    \/ \E c \in CallIds : Notify(c)
    \/ \E c \in CallIds : Return(c)
    \/ \E i \in DOMAIN animations : ResolveAnimation(i)
    \/ \E i \in DOMAIN animations : RejectAnimation(i)
    \/ \E cb \in Callbacks : OnUpdate(cb)
    \/ \E name \in RegisteredNames : Register(name, "ProductGridView", Undef)

SpecClearing == Init /\ [][NextClearing]_vars

(***************************************************************************)
(* useAssemblyStore (StateManager.ts): the zustand store.  Each action is  *)
(* one synchronous set(...).  A ComponentInstance is modelled by its id    *)
(* and type; userContext and intentHistory are left out.                   *)
(***************************************************************************)
MaxStore == 3       \* longest activeComponents list the store is driven to

StoreIds == {"c1", "c2"}
StoreTypes == {"ProductGrid", "FilterPanel"}
\* the batches handed to addComponents
StoreBatches ==
    { <<>>,
      <<[id |-> "c1", type |-> "ProductGrid"]>>,
      <<[id |-> "c1", type |-> "ProductGrid"],
        [id |-> "c2", type |-> "FilterPanel"]>> }
\* Partial<ComponentInstance>: the properties an update carries
StoreUpdates == [type : StoreTypes] \cup [id : StoreIds]
\* generateConversationId: conv_<Date.now()>_<random>
StoreConversationIds == {"conv_1000_a", "conv_1001_b"}
StoreLayouts == {"default", "grid"}
StoreThemes == {"light", "dark"}

\* addComponents: [...state.activeComponents, ...components]
StoreAddComponents(components) ==
    /\ Len(store.activeComponents) + Len(components) <= MaxStore
    /\ store' = [store EXCEPT !.activeComponents = @ \o components]
    /\ UNCHANGED <<registryVars, mapperVars, engineVars>>

\* removeComponents: filter(c => !componentIds.includes(c.id))
StoreRemoveComponents(componentIds) ==
    /\ store' = [store EXCEPT !.activeComponents =
                    SelectSeq(@, LAMBDA c :
                        \A i \in 1..Len(componentIds) : componentIds[i] # c.id)]
    /\ UNCHANGED <<registryVars, mapperVars, engineVars>>

\* updateComponent: map(c => c.id === id ? { ...c, ...updates } : c)
StoreUpdateComponent(id, updates) ==
    /\ store' = [store EXCEPT !.activeComponents =
                    [i \in 1..Len(@) |->
                        IF @[i].id = id THEN Spread(@[i], updates) ELSE @[i]]]
    /\ UNCHANGED <<registryVars, mapperVars, engineVars>>

\* setLayout: set({ layout })
StoreSetLayout(layout) ==
    /\ store' = [store EXCEPT !.layout = layout]
    /\ UNCHANGED <<registryVars, mapperVars, engineVars>>

\* setTheme: set({ theme })
StoreSetTheme(theme) ==
    /\ store' = [store EXCEPT !.theme = theme]
    /\ UNCHANGED <<registryVars, mapperVars, engineVars>>

\* reset: back to the initial values, under a fresh conversation id
StoreReset(conversationId) ==
    /\ store' = [store EXCEPT !.activeComponents = <<>>,
                              !.layout = "default",
                              !.theme = "light",
                              !.conversationId = conversationId]
    /\ UNCHANGED <<registryVars, mapperVars, engineVars>>

NextStore ==
    \/ \E components \in StoreBatches :
           StoreAddComponents(components)
    \/ \E componentIds \in SeqsUpTo(StoreIds, MaxBatch) :
           StoreRemoveComponents(componentIds)
    \/ \E id \in StoreIds, updates \in StoreUpdates :
           StoreUpdateComponent(id, updates)
    \/ \E layout \in StoreLayouts : StoreSetLayout(layout)
    \/ \E theme \in StoreThemes : StoreSetTheme(theme)
    \/ \E conversationId \in StoreConversationIds : StoreReset(conversationId)

SpecStore == Init /\ [][NextStore]_vars

(***************************************************************************)
(* The layout engine over a populated engine: the initial state is the     *)
(* state after Adds of up to MaxMounted registered components have         *)
(* completed, and the engine is then handed Reorganize instructions.       *)
(***************************************************************************)
MaxMounted == 4     \* components in the map when the first Reorganize arrives

LayoutTypes == {"FilterPanel", "NavigationPanel", "ProductGrid", "Carousel"}

MountedId(i) == "c" \o ToString(i)

\* the map after an Add of the components has completed: each state is
\* {...component, status: 'mounted'}
MountedMap(components) ==
    MapSetAll(<<>>,
              [i \in DOMAIN components |->
                  [key |-> components[i].id,
                   value |-> Spread(components[i], [status |-> "mounted"])]])

\* the registry after register(name, View) for each of the names
RegistryOf(names) ==
    LET RECURSIVE Fill(_, _)
        Fill(m, rest) ==
            IF rest = {} THEN m
            ELSE LET name == CHOOSE n \in rest : TRUE
                 IN Fill(MapSet(m, name, "View"), rest \ {name})
    IN Fill(<<>>, names)

\* the register calls that made it
LogOf(names) == {[name |-> n, component |-> "View", metadata |-> Undef] : n \in names}

InitLayout ==
    /\ regComponents = RegistryOf(LayoutTypes)
    /\ regMetadata = <<>>
    /\ registerLog = LogOf(LayoutTypes)
    /\ lastIntent = NoIntent
    /\ lastManifest = NoManifest
    /\ store = InitialStore
    /\ \E types \in SeqsUpTo(LayoutTypes, MaxMounted) :
          activeComponents =
              MountedMap([i \in DOMAIN types |-> Instance(MountedId(i), types[i])])
    /\ currentLayout = "default"
    /\ updateCallback = Undef
    /\ calls = [c \in CallIds |-> IdleCall]
    /\ animations = <<>>
    /\ delivery = <<>>
    /\ settled = <<>>
    /\ subscribed = {}
    /\ lastAnalysis = NoAnalysis
    /\ lastInstruction = NoInstruction
    /\ mergeRules = <<>>
    /\ mergeIndex = 0

NextLayout ==
    \/ /\ NoCallInFlight
       /\ \E layout \in LayoutKeys :
             StartReorganize(1, [action |-> "reorganize", layout |-> layout])
    \/ \E c \in CallIds : ResumeReorganize(c)
    \/ \E c \in CallIds : Notify(c)
    \/ \E c \in CallIds : Return(c)
    \/ \E i \in DOMAIN animations : ResolveAnimation(i)
    \/ \E i \in DOMAIN animations : RejectAnimation(i)

SpecLayout == InitLayout /\ [][NextLayout]_vars

(***************************************************************************)
(* examples/intent/IntentAnalyzer.ts: IntentMapper                         *)
(*                                                                         *)
(* Numbers with a fraction are scaled to integers: a confidence is in      *)
(* hundredths (0.75 is 75), a duration, a stagger and an animationDelay    *)
(* are in tenths of a second (0.3 is 3).  An IntentAnalysis is a record    *)
(* [intent, entities, context]; entities or context may be absent, which   *)
(* makes a read of one of their properties throw a TypeError.              *)
(***************************************************************************)
\* JavaScript truthiness of an entity value (all of them are strings)
Truthy(v) == v # ""

\* extractFilters copies, in this order, each truthy entity to its filter key
FilterSource ==
    <<[from |-> "color", to |-> "color"],
      [from |-> "product_type", to |-> "category"],
      [from |-> "occasion", to |-> "occasion"],
      [from |-> "price_range", to |-> "priceRange"],
      [from |-> "style", to |-> "style"]>>

\* Object.keys(extractFilters(entities)), in insertion order
extractFilterKeys(entities) ==
    LET copied == SelectSeq(FilterSource,
                     LAMBDA p : p.from \in DOMAIN entities /\ Truthy(entities[p.from]))
    IN [i \in DOMAIN copied |-> copied[i].to]

\* IntentMapper.extractFilters
extractFilters(entities) ==
    LET copied == SelectSeq(FilterSource,
                     LAMBDA p : p.from \in DOMAIN entities /\ Truthy(entities[p.from]))
    IN [k \in {copied[i].to : i \in DOMAIN copied} |->
           entities[copied[CHOOSE i \in DOMAIN copied : copied[i].to = k].from]]

\* IntentMapper.getAvailableFilters
getAvailableFilters(entities) ==
    LET allFilters == <<"category", "color", "size", "price", "occasion", "style",
                        "material">>
        mentionedFilters == extractFilterKeys(entities)
        otherFilters == SelectSeq(allFilters, LAMBDA f : f \notin Range(mentionedFilters))
    IN mentionedFilters \o otherFilters

\* IntentMapper.initializeMappingRules; a component definition without a
\* props field has a function for props, see propsFunction
mappingRules ==
    <<[id |-> "greeting_rule",
       instruction |->
         [action |-> "add",
          components |->
            <<[type |-> "WelcomeHero",
               props |-> [message |-> "Welcome to our world of luxury",
                          subtitle |-> "How may we assist you today?"],
               position |-> [area |-> "hero", order |-> 0]],
              [type |-> "SuggestionCards",
               props |-> [suggestions |->
                   <<[text |-> "Browse New Arrivals", intent |-> "product_browse"],
                     [text |-> "Book Styling Session", intent |-> "appointment"],
                     [text |-> "Explore Collections", intent |-> "brand_story"]>>],
               position |-> [area |-> "main", order |-> 1]]>>,
          layout |-> "centered",
          animation |-> [enter |-> "fadeInUp", duration |-> 6, stagger |-> 2]]],
      [id |-> "browse_rule",
       instruction |->
         [action |-> "add",
          components |->
            <<[type |-> "ProductGrid", position |-> [area |-> "main", order |-> 0]],
              [type |-> "FilterPanel", position |-> [area |-> "sidebar", order |-> 0]]>>,
          layout |-> "two-column",
          animation |-> [enter |-> "slideIn", duration |-> 5]]],
      [id |-> "detail_rule",
       instruction |->
         [action |-> "add",
          components |->
            <<[type |-> "ProductDetailView", position |-> [area |-> "main", order |-> 0]],
              [type |-> "RelatedProducts", position |-> [area |-> "bottom", order |-> 1]]>>,
          layout |-> "full-width",
          animation |-> [enter |-> "fadeIn", duration |-> 4]]],
      [id |-> "style_advice_rule",
       instruction |->
         [action |-> "add",
          components |->
            <<[type |-> "StyleAdvisor", position |-> [area |-> "main", order |-> 0]],
              [type |-> "OutfitBuilder",
               props |-> [allowMixMatch |-> TRUE, showPricing |-> TRUE],
               position |-> [area |-> "sidebar", order |-> 0]]>>,
          layout |-> "split-view",
          animation |-> [enter |-> "slideInFromRight", duration |-> 5]]],
      [id |-> "store_visit_rule",
       instruction |->
         [action |-> "add",
          components |->
            <<[type |-> "StoreLocator",
               props |-> [showMap |-> TRUE, enableGeolocation |-> TRUE],
               position |-> [area |-> "main", order |-> 0]],
              [type |-> "AppointmentScheduler",
               props |-> [serviceTypes |-> <<"personal-shopping", "styling-consultation">>,
                          showAvailability |-> TRUE],
               position |-> [area |-> "sidebar", order |-> 0]]>>,
          layout |-> "map-view",
          animation |-> [enter |-> "expandFromCenter", duration |-> 6]]],
      [id |-> "urgency_modifier",
       instruction |->
         [action |-> "modify",
          modifications |->
            [animation |-> [duration |-> 3, enter |-> "instant"],
             props |-> [priority |-> "high", showQuickActions |-> TRUE]]]]>>

\* the props functions of the component definitions: they read analysis.entities
propsFunction(type, analysis) ==
    LET entities == analysis.entities IN
    CASE type = "ProductGrid" ->
            [filters |-> extractFilters(entities), initialProducts |-> 12,
             enableInfiniteScroll |-> TRUE]
      [] type = "FilterPanel" ->
            [availableFilters |-> getAvailableFilters(entities),
             activeFilters |-> extractFilters(entities), position |-> "sidebar"]
      [] type = "ProductDetailView" ->
            [productId |-> entities.productId, showCraftsmanship |-> TRUE,
             enable360View |-> TRUE]
      [] type = "RelatedProducts" ->
            [productId |-> entities.productId, maxItems |-> 4]
      [] type = "StyleAdvisor" ->
            [occasion |-> IF "occasion" \in DOMAIN entities THEN entities.occasion
                          ELSE Undef,
             preferences |-> entities, mode |-> "interactive"]

\* comp.props(analysis) throws when analysis.entities is undefined
propsThrows(comp, analysis) ==
    "props" \notin DOMAIN comp /\ "entities" \notin DOMAIN analysis

\* the condition of a rule throws: a property of an undefined object is read
conditionThrows(ruleId, analysis) ==
    CASE ruleId = "detail_rule" ->
            analysis.intent.type = "product_detail" /\ "entities" \notin DOMAIN analysis
      [] ruleId = "urgency_modifier" -> "context" \notin DOMAIN analysis
      [] OTHER -> FALSE

\* variant whose conditions look at the intent type and the context only
conditionAnyConfidence(ruleId, analysis) ==
    CASE ruleId = "greeting_rule" -> analysis.intent.type = "greeting"
      [] ruleId = "browse_rule" -> analysis.intent.type = "product_browse"
      [] ruleId = "detail_rule" ->
            /\ analysis.intent.type = "product_detail"
            /\ "productId" \in DOMAIN analysis.entities
            /\ Truthy(analysis.entities.productId)
      [] ruleId = "style_advice_rule" -> analysis.intent.type = "style_advice"
      [] ruleId = "store_visit_rule" -> analysis.intent.type = "store_visit"
      [] ruleId = "urgency_modifier" ->
            /\ "urgency" \in DOMAIN analysis.context
            /\ analysis.context.urgency = "high"

\* rule.condition(analysis), as the truthiness filter() sees, when it does not
\* throw
condition(ruleId, analysis) ==
    CASE ruleId = "greeting_rule" ->
            analysis.intent.type = "greeting" /\ analysis.intent.confidence > 70
      [] ruleId = "browse_rule" ->
            analysis.intent.type = "product_browse" /\ analysis.intent.confidence > 60
      [] ruleId = "detail_rule" ->
            /\ analysis.intent.type = "product_detail"
            /\ "productId" \in DOMAIN analysis.entities
            /\ Truthy(analysis.entities.productId)
      [] ruleId = "style_advice_rule" -> analysis.intent.type = "style_advice"
      [] ruleId = "store_visit_rule" -> analysis.intent.type = "store_visit"
      [] ruleId = "urgency_modifier" ->
            /\ "urgency" \in DOMAIN analysis.context
            /\ analysis.context.urgency = "high"
            /\ analysis.intent.confidence > 80

\* IntentMapper.evaluateRule: a condition that throws counts as false
evaluateRule(rule, analysis) ==
    IF conditionThrows(rule.id, analysis) THEN FALSE ELSE condition(rule.id, analysis)

\* `${comp.type}-${Date.now()}-${Math.random().toString(36).substr(2, 9)}':
\* a stamp [now, rnd] is what the clock and the generator return for one id
componentId(type, stamp) == type \o "-" \o ToString(stamp.now) \o "-" \o stamp.rnd

\* variant that puts each synthesized component in front of the list
RECURSIVE PushComponentsFront(_, _, _, _)
PushComponentsFront(comps, analysis, stamps, draft) ==
    IF comps = <<>> \/ "error" \in DOMAIN draft THEN draft
    ELSE LET comp == Head(comps) IN
         IF propsThrows(comp, analysis) THEN [error |-> "TypeError"]
         ELSE LET props == IF "props" \in DOMAIN comp THEN comp.props
                           ELSE propsFunction(comp.type, analysis)
                  n == Len(draft.components)
                  instance == [id |-> componentId(comp.type, stamps[n + 1]),
                               type |-> comp.type, props |-> props,
                               position |-> comp.position, animationDelay |-> n]
              IN PushComponentsFront(Tail(comps), analysis, stamps,
                     [draft EXCEPT !.components = <<instance>> \o @])

\* instruction.components.forEach(comp => baseInstruction.components.push(...));
\* a props function that throws ends the merge with the error
RECURSIVE PushComponents(_, _, _, _)
PushComponents(comps, analysis, stamps, draft) ==
    IF comps = <<>> \/ "error" \in DOMAIN draft THEN draft
    ELSE LET comp == Head(comps) IN
         IF propsThrows(comp, analysis) THEN [error |-> "TypeError"]
         ELSE LET props == IF "props" \in DOMAIN comp THEN comp.props
                           ELSE propsFunction(comp.type, analysis)
                  n == Len(draft.components)
                  instance == [id |-> componentId(comp.type, stamps[n + 1]),
                               type |-> comp.type, props |-> props,
                               position |-> comp.position, animationDelay |-> n]
              IN PushComponents(Tail(comps), analysis, stamps,
                     [draft EXCEPT !.components = Append(@, instance)])

\* variant whose Add branch takes the rule's animation as it is
AddEffectReplacing(instruction, analysis, stamps, draft) ==
    LET withComponents ==
            IF "components" \in DOMAIN instruction
            THEN PushComponents(instruction.components, analysis, stamps, draft)
            ELSE draft
    IN IF "error" \in DOMAIN withComponents THEN withComponents
       ELSE LET withLayout ==
                    IF "layout" \in DOMAIN instruction
                    THEN [withComponents EXCEPT !.layout = instruction.layout]
                    ELSE withComponents
            IN IF "animation" \in DOMAIN instruction
               THEN [withLayout EXCEPT !.animation = instruction.animation]
               ELSE withLayout

\* the else branch of mergeInstructions: components, then layout and animation
AddEffect(instruction, analysis, stamps, draft) ==
    LET withComponents ==
            IF "components" \in DOMAIN instruction
            THEN PushComponents(instruction.components, analysis, stamps, draft)
            ELSE draft
    IN IF "error" \in DOMAIN withComponents THEN withComponents
       ELSE LET withLayout ==
                    IF "layout" \in DOMAIN instruction
                    THEN [withComponents EXCEPT !.layout = instruction.layout]
                    ELSE withComponents
            IN IF "animation" \in DOMAIN instruction
               THEN [withLayout EXCEPT
                        !.animation = Spread(@, instruction.animation)]
               ELSE withLayout

\* variant that also merges the override's props into every component
ModifyEffectDeep(instruction, draft) ==
    LET modifications == FieldOrEmpty(instruction, "modifications")
        merged == Spread(draft, modifications)
    IN [merged EXCEPT !.components =
           [k \in DOMAIN @ |->
               [@[k] EXCEPT !.props = Spread(@, FieldOrEmpty(modifications, "props"))]]]

\* Object.assign(baseInstruction, instruction.modifications)
ModifyEffect(instruction, draft) ==
    Spread(draft, FieldOrEmpty(instruction, "modifications"))

\* variant that numbers the order of every component by its index in the draft
FoldRuleRenumbering(rule, analysis, stamps, draft) ==
    LET next == IF rule.instruction.action = "modify"
                THEN ModifyEffect(rule.instruction, draft)
                ELSE AddEffect(rule.instruction, analysis, stamps, draft)
    IN IF "error" \in DOMAIN next THEN next
       ELSE [next EXCEPT !.components =
                [k \in DOMAIN @ |-> [@[k] EXCEPT !.position.order = k - 1]]]

\* the body of rules.forEach(rule => ...): one rule folded into the draft
FoldRule(rule, analysis, stamps, draft) ==
    IF rule.instruction.action = "modify"
    THEN ModifyEffect(rule.instruction, draft)
    ELSE AddEffect(rule.instruction, analysis, stamps, draft)

\* rules.forEach(rule => ...) of mergeInstructions
RECURSIVE MergeLoop(_, _, _, _)
MergeLoop(rules, analysis, stamps, draft) ==
    IF rules = <<>> \/ "error" \in DOMAIN draft THEN draft
    ELSE MergeLoop(Tail(rules), analysis, stamps,
                   FoldRule(Head(rules), analysis, stamps, draft))

\* the draft mergeInstructions starts from
baseInstruction ==
    [action |-> "add", components |-> <<>>, layout |-> "default",
     animation |-> [enter |-> "fadeIn", exit |-> "fadeOut", duration |-> 5]]

\* IntentMapper.mergeInstructions: the instruction, or [error] when it throws
mergeInstructions(rules, analysis, stamps) ==
    MergeLoop(rules, analysis, stamps, baseInstruction)

\* IntentMapper.getDefaultInstruction
getDefaultInstruction(stamps) ==
    [action |-> "add",
     components |->
        <<[id |-> "help-" \o ToString(stamps[1].now), type |-> "HelpPanel",
           props |-> [message |-> "I'm here to help. What would you like to explore?",
                      showSuggestions |-> TRUE],
           position |-> [area |-> "main", order |-> 0]]>>,
     layout |-> "centered",
     animation |-> [enter |-> "fadeIn", exit |-> "fadeOut", duration |-> 3]]

\* variant without the fallback for an empty list of matching rules
mapToUIInstructionsNoFallback(rules, analysis, stamps) ==
    mergeInstructions(SelectSeq(rules, LAMBDA rule : evaluateRule(rule, analysis)),
                      analysis, stamps)

\* IntentMapper.mapToUIInstructions over the given rule list
mapToUIInstructionsWith(rules, analysis, stamps) ==
    LET matchingRules == SelectSeq(rules, LAMBDA rule : evaluateRule(rule, analysis))
    IN IF Len(matchingRules) = 0
       THEN getDefaultInstruction(stamps)
       ELSE mergeInstructions(matchingRules, analysis, stamps)

\* IntentMapper.mapToUIInstructions
mapToUIInstructions(analysis, stamps) ==
    mapToUIInstructionsWith(mappingRules, analysis, stamps)

(***************************************************************************)
(* The mapper as a state machine: one mapToUIInstructions call on an       *)
(* analysis drawn from the inputs below, with the clock readings and       *)
(* random suffixes the call happens to get.                                *)
(***************************************************************************)
IntentTypes ==
    {"greeting", "product_browse", "product_detail", "style_advice", "store_visit",
     "smalltalk"}

Confidences == {50, 60, 65, 70, 75, 80, 85, 90}

Contexts == {[urgency |-> "low"], [urgency |-> "high"]}

EntitySets ==
    {<<>>, [productId |-> "p1"], [productId |-> ""],
     [color |-> "red", price_range |-> "high", occasion |-> "gala"]}

Analyses ==
    LET intents == [type : IntentTypes, confidence : Confidences]
    IN {[intent |-> i] : i \in intents}
       \cup {[intent |-> i, entities |-> e] : i \in intents, e \in EntitySets}
       \cup {[intent |-> i, context |-> x] : i \in intents, x \in Contexts}
       \cup {[intent |-> i, entities |-> e, context |-> x] :
                i \in intents, e \in EntitySets, x \in Contexts}

\* the clock does not run backwards between two ids of one call
Stamps ==
    {s \in [1..2 -> [now : {1000, 1001}, rnd : {"k3j9x", "p0q2m"}]] :
        s[1].now <= s[2].now}

MapToUIInstructions(stamps) ==
    /\ lastInstruction = NoInstruction
    /\ lastInstruction' = mapToUIInstructions(lastAnalysis, stamps)
    /\ UNCHANGED <<lastAnalysis, mergeRules, mergeIndex, registryVars, engineVars, storeVars>>

InitMapper ==
    /\ regComponents = <<>>
    /\ regMetadata = <<>>
    /\ registerLog = {}
    /\ lastIntent = NoIntent
    /\ lastManifest = NoManifest
    /\ store = InitialStore
    /\ activeComponents = <<>>
    /\ currentLayout = "default"
    /\ updateCallback = Undef
    /\ calls = [c \in CallIds |-> IdleCall]
    /\ animations = <<>>
    /\ delivery = <<>>
    /\ settled = <<>>
    /\ subscribed = {}
    /\ lastAnalysis \in Analyses
    /\ lastInstruction = NoInstruction
    /\ mergeRules = <<>>
    /\ mergeIndex = 0

NextMapper == \E stamps \in Stamps : MapToUIInstructions(stamps)

SpecMapper == InitMapper /\ [][NextMapper]_vars

(***************************************************************************)
(* The mapper called again on the analysis of its last call: the mapper    *)
(* keeps nothing between two calls but the rule table, which no call       *)
(* writes, so a replay differs from the first call by its stamps only.     *)
(***************************************************************************)
\* the stamps of a later call: its clock readings are not before the first's
LaterStamps ==
    {s \in [1..2 -> [now : {1001, 1002}, rnd : {"k3j9x", "p0q2m"}]] :
        s[1].now <= s[2].now}

Replay(stamps) ==
    /\ lastInstruction # NoInstruction
    /\ lastInstruction' = mapToUIInstructions(lastAnalysis, stamps)
    /\ UNCHANGED <<lastAnalysis, mergeRules, mergeIndex, registryVars, engineVars, storeVars>>

NextReplay ==
    \/ \E stamps \in Stamps : MapToUIInstructions(stamps)
    \/ \E stamps \in LaterStamps : Replay(stamps)

SpecReplay == InitMapper /\ [][NextReplay]_vars

(***************************************************************************)
(* mergeInstructions stepped through one rule at a time: the list of       *)
(* matching rules is an input, drawn from rules of the table and one rule  *)
(* that declares neither layout nor animation (both are optional in        *)
(* RuleInstruction); each fold draws the clock readings and random         *)
(* suffixes of the ids it synthesizes.                                     *)
(***************************************************************************)
MaxRules == 2       \* longest list of matching rules handed to the merge

BannerRule ==
    [id |-> "banner_rule",
     instruction |->
       [action |-> "add",
        components |->
          <<[type |-> "WelcomeHero",
             props |-> [message |-> "Welcome back"],
             position |-> [area |-> "hero", order |-> 0]]>>]]

MergeRulePool == {mappingRules[1], mappingRules[2], mappingRules[6], BannerRule}

MergeAnalyses ==
    {[intent |-> [type |-> "product_browse", confidence |-> 90],
      entities |-> [color |-> "red", price_range |-> "high", occasion |-> "gala"],
      context |-> [urgency |-> "high"]],
     [intent |-> [type |-> "product_browse", confidence |-> 90],
      context |-> [urgency |-> "high"]]}

\* the stamps of one fold, indexed by the positions its components will take
StampsFrom(n, stamps) == [i \in (n + 1)..(n + Len(stamps)) |-> stamps[i - n]]

InitMerge ==
    /\ regComponents = <<>>
    /\ regMetadata = <<>>
    /\ registerLog = {}
    /\ lastIntent = NoIntent
    /\ lastManifest = NoManifest
    /\ store = InitialStore
    /\ activeComponents = <<>>
    /\ currentLayout = "default"
    /\ updateCallback = Undef
    /\ calls = [c \in CallIds |-> IdleCall]
    /\ animations = <<>>
    /\ delivery = <<>>
    /\ settled = <<>>
    /\ subscribed = {}
    /\ lastAnalysis \in MergeAnalyses
    /\ lastInstruction = baseInstruction
    /\ mergeRules \in SeqsUpTo(MergeRulePool, MaxRules) \ {<<>>}
    /\ mergeIndex = 0

\* one iteration of the forEach; an exception of a props function ends it
FoldNext(stamps) ==
    /\ mergeIndex < Len(mergeRules)
    /\ "error" \notin DOMAIN lastInstruction
    /\ lastInstruction' =
          FoldRule(mergeRules[mergeIndex + 1], lastAnalysis,
                   StampsFrom(Len(lastInstruction.components), stamps),
                   lastInstruction)
    /\ mergeIndex' = mergeIndex + 1
    /\ UNCHANGED <<lastAnalysis, mergeRules, registryVars, engineVars, storeVars>>

NextMerge == \E stamps \in Stamps : FoldNext(stamps)

SpecMerge == InitMerge /\ [][NextMerge]_vars

(***************************************************************************)
(* The mapper feeding the engine: an intent is mapped, the instruction the *)
(* mapper returns is handed to processInstruction, one call at a time, and *)
(* Updates and Reorganizes arrive in between.  The registry holds the      *)
(* component types the mapped instructions name.  Every id is synthesized  *)
(* with one stamp, which keeps the ids, and with them the map, bounded.    *)
(***************************************************************************)
PipelineTypes == {"ProductGrid", "FilterPanel", "HelpPanel"}

PipelineAnalyses ==
    {[intent |-> [type |-> "product_browse", confidence |-> 90],
      entities |-> [color |-> "red", price_range |-> "high", occasion |-> "gala"],
      context |-> [urgency |-> "low"]],
     [intent |-> [type |-> "smalltalk", confidence |-> 50],
      entities |-> <<>>,
      context |-> [urgency |-> "low"]]}

PipelineStamps == {[i \in 1..2 |-> [now |-> 1000, rnd |-> "k3j9x"]]}

PipelineInstructions ==
    {[action |-> "update",
      updates |-> <<[id |-> componentId("FilterPanel", [now |-> 1000, rnd |-> "k3j9x"]),
                     props |-> [collapsed |-> TRUE]]>>],
     [action |-> "reorganize", layout |-> "two-column"],
     [action |-> "reorganize", layout |-> "grid"]}

InitPipeline ==
    /\ regComponents = RegistryOf(PipelineTypes)
    /\ regMetadata = <<>>
    /\ registerLog = LogOf(PipelineTypes)
    /\ lastIntent = NoIntent
    /\ lastManifest = NoManifest
    /\ store = InitialStore
    /\ activeComponents = <<>>
    /\ currentLayout = "default"
    /\ updateCallback = Undef
    /\ calls = [c \in CallIds |-> IdleCall]
    /\ animations = <<>>
    /\ delivery = <<>>
    /\ settled = <<>>
    /\ subscribed = {}
    /\ lastAnalysis = NoAnalysis
    /\ lastInstruction = NoInstruction
    /\ mergeRules = <<>>
    /\ mergeIndex = 0

\* mapToUIInstructions(analysis) returns without raising
MapIntent(analysis, stamps) ==
    /\ "error" \notin DOMAIN mapToUIInstructions(analysis, stamps)
    /\ lastAnalysis' = analysis
    /\ lastInstruction' = mapToUIInstructions(analysis, stamps)
    /\ UNCHANGED <<mergeRules, mergeIndex, registryVars, engineVars, storeVars>>

NextPipeline ==
    \/ \E analysis \in PipelineAnalyses : \E stamps \in PipelineStamps :
          MapIntent(analysis, stamps)
    \/ (NoCallInFlight /\ lastInstruction # NoInstruction /\ StartAdd(1, lastInstruction))
    \/ (NoCallInFlight /\ \E instruction \in PipelineInstructions :
                              StartUpdate(1, instruction))
    \/ (NoCallInFlight /\ \E instruction \in PipelineInstructions :
                              StartReorganize(1, instruction))
    \/ \E c \in CallIds : ResumeAdd(c)
    \/ \E c \in CallIds : ResumeReorganize(c)
    \/ \E c \in CallIds : Notify(c)
    \/ \E c \in CallIds : Return(c)
    \/ \E i \in DOMAIN animations : ResolveAnimation(i)
    \/ \E i \in DOMAIN animations : RejectAnimation(i)

SpecPipeline == InitPipeline /\ [][NextPipeline]_vars

(***************************************************************************)
(* Vocabulary of the properties                                            *)
(***************************************************************************)
\* lifecycle status of an id: its status in the map, "removed" when the id
\* is not in the map (Pending before the insertion, Removed after deletion)
StatusOf(active, id) ==
    IF MapHas(active, id) THEN MapGet(active, id).status ELSE "removed"

\* the map entry of an id as a sequence of length at most one
EntryOf(active, id) == IF MapHas(active, id) THEN <<MapGet(active, id)>> ELSE <<>>

KeySet(active) == {active[i].key : i \in DOMAIN active}

\* the type name has been registered
IsRegistered(name) == \E i \in DOMAIN regComponents : regComponents[i].key = name

\* the edges of the lifecycle state machine, on the statuses the code has
LifecycleEdge(s, t) ==
    \/ s = "removed" /\ t = "mounting"
    \/ s = "mounting" /\ t = "mounted"
    \/ s = "mounted" /\ t = "unmounting"
    \/ s = "unmounting" /\ t = "removed"

\* one atomic block of code may walk Unmounting -> Removed behind an edge
LifecycleStep(s, t) ==
    \/ s = t
    \/ LifecycleEdge(s, t)
    \/ LifecycleEdge(s, "unmounting") /\ t = "removed"

\* call c takes the step that issues an instruction with the given action
Starts(c, action) ==
    /\ calls[c].pc = "idle"
    /\ calls'[c].pc \in {"awaiting", "returned"}
    /\ calls'[c].instr.action = action

\* call c passes its barrier: the awaited operation returns
Resumes(c, action) ==
    /\ calls[c].pc = "awaiting"
    /\ calls'[c].pc = "returned"
    /\ calls[c].instr.action = action

\* call c returns normally to its caller
Completes(c) ==
    /\ calls[c].pc \in {"idle", "returned"}
    /\ calls'[c].pc = "done"

ListedIds(instruction) ==
    IF instruction.action = "add" /\ "components" \in DOMAIN instruction
    THEN {instruction.components[k].id : k \in DOMAIN instruction.components}
    ELSE IF instruction.action = "remove" /\ "componentIds" \in DOMAIN instruction
    THEN Range(instruction.componentIds)
    ELSE {}

(***************************************************************************)
(* C1: with serialized calls, the status of every component changes only   *)
(* along Pending -> Mounting -> Mounted and {Mounted} -> Unmounting ->     *)
(* Removed; no other transition (such as Mounted -> Mounting) occurs.      *)
(***************************************************************************)
C1_LifecycleOnlyAlongStateMachine ==
    [][\A id \in Ids :
          LifecycleStep(StatusOf(activeComponents, id), StatusOf(activeComponents', id))]_vars

(***************************************************************************)
(* C2: in every reachable state no two entries of the active set have the  *)
(* same id, and every entry is filed under the id of its component.        *)
(***************************************************************************)
C2_UniqueIds ==
    /\ \A i, j \in DOMAIN activeComponents :
          activeComponents[i].key = activeComponents[j].key => i = j
    /\ \A i \in DOMAIN activeComponents :
          activeComponents[i].value.id = activeComponents[i].key

\* an Add that repeats an id inside its batch is in flight over an active set
\* that already held this id
C2_Witness ==
    \E c \in CallIds :
        /\ calls[c].pc = "returned"
        /\ calls[c].instr.action = "add"
        /\ Len(calls[c].instr.components) = 2
        /\ calls[c].instr.components[1].id = calls[c].instr.components[2].id
        /\ calls[c].accepted # {}
        /\ Len(activeComponents) = 2

(***************************************************************************)
(* C8: once two different callbacks have been registered through onUpdate, *)
(* every state-change notification is delivered to both of them.           *)
(***************************************************************************)
C8_EverySubscriberNotified ==
    (delivery # <<>> /\ Cardinality(subscribed) >= 2)
        => \A cb \in subscribed : \E i \in DOMAIN delivery : delivery[i].to = cb

(***************************************************************************)
(* C9: once every scheduled animation promise has settled and no           *)
(* processInstruction call is in flight, no component of the active set    *)
(* has status Mounting or Unmounting.                                      *)
(***************************************************************************)
C9_NeverStuck ==
    (NoCallInFlight /\ animations = <<>>)
        => \A i \in DOMAIN activeComponents :
              activeComponents[i].value.status \notin {"mounting", "unmounting"}

\* the instruction of the step call c takes (its argument when it starts)
StepInstr(c) == IF calls[c].pc = "idle" THEN calls'[c].instr ELSE calls[c].instr

\* call c itself takes a step (start, resume, notify or reject)
StepOf(c) == calls'[c] # calls[c] /\ calls'[c].pc # "idle"

\* promise i resolves in this step
ResolvedNow(i) == animations' = RemoveAt(animations, i) /\ settled' = <<>>

(***************************************************************************)
(* C3: an Add inserts exactly the components of its batch whose type is    *)
(* registered, whatever else the batch holds; those reach Mounted when the *)
(* Add passes its barrier; no component of an unregistered type is ever in *)
(* the active set, hence in no snapshot.                                   *)
(***************************************************************************)
C3_TypesRegistered ==
    \A i \in DOMAIN activeComponents : IsRegistered(activeComponents[i].value.type)

C3_OnlyRegisteredTypesAdded ==
    [][/\ C3_TypesRegistered'
       /\ \A c \in CallIds :
            /\ Starts(c, "add") =>
                 LET components == calls'[c].instr.components
                     registered == {k \in DOMAIN components : IsRegistered(components[k].type)}
                 IN /\ KeySet(activeComponents') =
                          KeySet(activeComponents) \cup {components[k].id : k \in registered}
                    /\ \A k \in registered :
                          /\ StatusOf(activeComponents', components[k].id) = "mounting"
                          /\ IsRegistered(MapGet(activeComponents', components[k].id).type)
            /\ Resumes(c, "add") =>
                 \A id \in calls[c].accepted :
                     MapHas(activeComponents', id)
                         => StatusOf(activeComponents', id) = "mounted"]_vars

\* a batch with an unregistered type first and a registered one second has
\* passed its barrier: only the registered one is there, Mounted
C3_Witness ==
    \E c \in CallIds :
        /\ calls[c].pc = "returned"
        /\ calls[c].instr.action = "add"
        /\ Len(calls[c].instr.components) = 2
        /\ ~IsRegistered(calls[c].instr.components[1].type)
        /\ IsRegistered(calls[c].instr.components[2].type)
        /\ calls[c].instr.components[1].id # calls[c].instr.components[2].id
        /\ StatusOf(activeComponents, calls[c].instr.components[2].id) = "mounted"
        /\ ~MapHas(activeComponents, calls[c].instr.components[1].id)

(***************************************************************************)
(* C4: an Add starts the enter animation of every accepted component       *)
(* before it waits, passes its barrier only when all of them have          *)
(* resolved, no accepted component is Mounted before that, and all of them *)
(* are Mounted when the Add completes.                                     *)
(***************************************************************************)
C4_AddBarrier ==
    [][\A c \in CallIds :
          /\ Starts(c, "add") =>
               /\ "animation" \in DOMAIN calls'[c].instr =>
                     \A id \in calls'[c].accepted :
                        \E i \in DOMAIN animations' :
                            animations'[i] = [kind |-> "in", id |-> id, owner |-> c]
               /\ \A id \in calls'[c].accepted :
                     StatusOf(activeComponents', id) = "mounting"
          /\ (calls'[c].pc = "awaiting" /\ calls'[c].instr.action = "add") =>
               \A id \in calls'[c].accepted :
                   StatusOf(activeComponents', id) # "mounted"
          /\ Resumes(c, "add") =>
               /\ Pending(c) = {}
               /\ \A id \in calls[c].accepted :
                     StatusOf(activeComponents', id) = "mounted"]_vars

(***************************************************************************)
(* C5: a Remove whose ids are all absent from the active set is a no-op:   *)
(* none of its steps changes the active set or the layout or schedules an  *)
(* animation, and it is not rejected.                                      *)
(***************************************************************************)
C5_RemoveAbsentIsNoOp ==
    [][\A c \in CallIds :
          (/\ StepOf(c)
           /\ StepInstr(c).action = "remove"
           /\ "componentIds" \in DOMAIN StepInstr(c)
           /\ IF calls[c].pc = "idle"
              THEN \A k \in DOMAIN StepInstr(c).componentIds :
                      ~MapHas(activeComponents, StepInstr(c).componentIds[k])
              ELSE calls[c].accepted = {})
          => /\ activeComponents' = activeComponents
             /\ currentLayout' = currentLayout
             /\ animations' = animations
             /\ calls'[c].pc \in {"awaiting", "returned", "done"}]_vars

\* a Remove of absent ids has gone through over a non-empty active set
C5_Witness ==
    \E c \in CallIds :
        /\ calls[c].pc = "returned"
        /\ calls[c].instr.action = "remove"
        /\ calls[c].instr.componentIds # <<>>
        /\ calls[c].accepted = {}
        /\ activeComponents # <<>>

C7_NotifiedOncePerCall ==
    [][LET expected ==
              IF updateCallback # Undef
              THEN <<[to |-> updateCallback,
                      state |-> getState(activeComponents', currentLayout')]>>
              ELSE <<>>
       IN IF \E c \in CallIds : Completes(c)
          THEN delivery' = expected
          ELSE delivery' = <<>>]_vars

\* a call has just returned and its one notification carries a non-empty
\* snapshot
C7_Witness ==
    /\ Len(delivery) = 1
    /\ delivery[1].state = getState(activeComponents, currentLayout)
    /\ delivery[1].state.components # <<>>
    /\ \E c \in CallIds : calls[c].pc = "done"

(***************************************************************************)
(* C10: when an animation promise of a call rejects, the call rejects with *)
(* that reason, and nothing is rolled back: the step leaves the active set *)
(* and the layout as they are and notifies nobody; a call is rejected      *)
(* while waiting only by such a rejection; the start of an Add or a Remove *)
(* leaves the components outside its batch untouched.                      *)
(***************************************************************************)
C10_RejectionWithoutRollback ==
    [][\A c \in CallIds :
          /\ (settled' # <<>> /\ settled'[1].promise.owner = c) =>
               /\ calls[c].pc = "awaiting"
               /\ calls'[c].pc = "rejected"
               /\ calls'[c].error = Reason(settled'[1].promise)
               /\ activeComponents' = activeComponents
               /\ currentLayout' = currentLayout
               /\ delivery' = <<>>
          /\ (calls[c].pc = "awaiting" /\ calls'[c].pc = "rejected") =>
               /\ settled' # <<>>
               /\ settled'[1].promise.owner = c
          /\ (Starts(c, "add") \/ Starts(c, "remove")) =>
               \A id \in Ids \ ListedIds(calls'[c].instr) :
                  EntryOf(activeComponents', id) = EntryOf(activeComponents, id)]_vars

\* an Add of two components has been rejected by an enter animation and both
\* siblings are still in the active set, Mounting
C10_Witness ==
    \E c \in CallIds :
        /\ calls[c].pc = "rejected"
        /\ calls[c].error # NoError
        /\ Head(calls[c].error) = "AnimationError"
        /\ calls[c].instr.action = "add"
        /\ Cardinality(calls[c].accepted) = 2
        /\ \A id \in calls[c].accepted : StatusOf(activeComponents, id) = "mounting"

(***************************************************************************)
(* C11: a processInstruction call that is issued while another call is     *)
(* still waiting for its animations makes no change to the active set in   *)
(* the step that issues it (it would have to wait for the earlier call).   *)
(***************************************************************************)
C11_OneInstructionAtATime ==
    [][\A c \in CallIds :
          (/\ calls[c].pc = "idle"
           /\ calls'[c].pc # "idle"
           /\ \E d \in CallIds \ {c} : calls[d].pc = "awaiting")
          => activeComponents' = activeComponents]_vars

(***************************************************************************)
(* C12: a call whose instruction has an action other than add, remove,     *)
(* update, reorganize returns normally in the step that issues it, and     *)
(* that step changes neither the active set (ids, props, positions,        *)
(* statuses) nor the layout, and schedules no animation.                   *)
(***************************************************************************)
C12_UnknownActionDropped ==
    [][\A c \in CallIds :
          (/\ calls[c].pc = "idle"
           /\ calls'[c].pc # "idle"
           /\ calls'[c].instr.action \notin {"add", "remove", "update", "reorganize"})
          => /\ calls'[c].pc = "done"
             /\ calls'[c].error = NoError
             /\ activeComponents' = activeComponents
             /\ currentLayout' = currentLayout
             /\ animations' = animations]_vars

\* an instruction with an unknown action has been dropped over a non-empty
\* active set
C12_Witness ==
    \E c \in CallIds :
        /\ calls[c].pc = "done"
        /\ calls[c].instr.action \notin {"add", "remove", "update", "reorganize", "none"}
        /\ activeComponents # <<>>

\* the records of an Update that name the id and carry the field (props or
\* position)
RecordsWith(updates, id, field) ==
    {j \in DOMAIN updates : updates[j].id = id /\ field \in DOMAIN updates[j]}

\* the object a shallow merge of those records, in order, makes of old: every
\* key takes the value of the last record that has it, the other keys stay
MergedField(old, updates, id, field) ==
    LET js == RecordsWith(updates, id, field)
        having(k) == {j \in js : k \in DOMAIN updates[j][field]}
        last(k) == CHOOSE j \in having(k) : \A i \in having(k) : i <= j
    IN [k \in (DOMAIN old) \cup UNION {DOMAIN updates[j][field] : j \in js} |->
           IF having(k) # {} THEN updates[last(k)][field][k] ELSE old[k]]

(***************************************************************************)
(* C13: an Update merges the props of its records into the components     *)
(* they name (keys of the update win, the others stay), changes only the   *)
(* position fields a record gives, ignores records for absent ids, leaves  *)
(* the set of active ids and every other component as they are, and every  *)
(* updated component is Mounted when the Update has been applied.          *)
(***************************************************************************)
C13_UpdateMergesAndLeavesMounted ==
    [][\A c \in CallIds :
          Starts(c, "update") =>
             LET updates == calls'[c].instr.updates
                 named == {updates[j].id : j \in DOMAIN updates}
             IN /\ calls'[c].pc = "returned"
                /\ MapKeys(activeComponents') = MapKeys(activeComponents)
                /\ \A id \in Ids \ named :
                      EntryOf(activeComponents', id) = EntryOf(activeComponents, id)
                /\ \A id \in named \cap KeySet(activeComponents) :
                      LET old == MapGet(activeComponents, id)
                          new == MapGet(activeComponents', id)
                      IN /\ new.props = MergedField(old.props, updates, id, "props")
                         /\ new.position =
                               MergedField(old.position, updates, id, "position")
                         /\ new.id = old.id
                         /\ new.type = old.type
                         /\ new.status = "mounted"]_vars

(***************************************************************************)
(* C14: the step that applies Reorganize with a layout key leads to an     *)
(* engine state on which Reorganize with the same key, applied next,       *)
(* changes nothing: the second AssemblyState (components in order, with    *)
(* their positions and statuses, and the layout) equals the first.         *)
(***************************************************************************)
C14_ReorganizeIdempotent ==
    [][\A c \in CallIds :
          Starts(c, "reorganize") =>
             LET layout == IF "layout" \in DOMAIN calls'[c].instr
                           THEN calls'[c].instr.layout ELSE Undef
             IN /\ currentLayout' = layout
                /\ getState(reorganizeLayout(activeComponents', layout), layout)
                      = getState(activeComponents', currentLayout')]_vars

\* a Reorganize to two columns has been applied over a sidebar component that
\* was added after a main component, and has moved both
C14_Witness ==
    \E c \in CallIds :
        /\ calls[c].pc = "returned"
        /\ calls[c].instr.action = "reorganize"
        /\ currentLayout = "two-column"
        /\ Len(activeComponents) = 2
        /\ activeComponents[1].value.position.area = "main"
        /\ activeComponents[2].value.position.area = "sidebar"
        /\ activeComponents[2].value.position.order = 0

(***************************************************************************)
(* C15: when the executor settles every promise a call waits for, every    *)
(* processInstruction call that has been issued eventually returns or      *)
(* raises; the engine has no wait other than the barrier on the promises   *)
(* of the call's own batch.                                                *)
(***************************************************************************)
C15_CallsComplete ==
    \A c \in CallIds :
        (calls[c].pc \in {"awaiting", "returned"}) ~> (calls[c].pc \in {"done", "rejected"})

\* a call waits at its barrier for the two promises of its batch while a
\* promise of an earlier, rejected batch is still pending
C15_Witness ==
    \E c \in CallIds :
        /\ calls[c].pc = "awaiting"
        /\ Cardinality(Pending(c)) = 2
        /\ Orphans(animations) # {}

\* a mapToUIInstructions call has been made and has returned an instruction
Mapped == lastInstruction # NoInstruction /\ "error" \notin DOMAIN lastInstruction

\* the types of the components of an instruction, in order
TypesOf(instr) == [k \in DOMAIN instr.components |-> instr.components[k].type]

\* the rule of the mapper with the given id
RuleIndex(ruleId) == CHOOSE k \in DOMAIN mappingRules : mappingRules[k].id = ruleId

(***************************************************************************)
(* C16: when no rule matches the intent, mapToUIInstructions returns the   *)
(* fixed fallback: action add, one HelpPanel component with the help       *)
(* message, layout 'centered', animation fadeIn / fadeOut of 0.3 s, and    *)
(* nothing else.                                                           *)
(***************************************************************************)
C16_FallbackWhenNoRuleMatches ==
    (/\ lastInstruction # NoInstruction
     /\ \A k \in DOMAIN mappingRules : ~evaluateRule(mappingRules[k], lastAnalysis))
    => /\ DOMAIN lastInstruction = {"action", "components", "layout", "animation"}
       /\ lastInstruction.action = "add"
       /\ Len(lastInstruction.components) = 1
       /\ LET help == lastInstruction.components[1]
          IN /\ DOMAIN help = {"id", "type", "props", "position"}
             /\ help.type = "HelpPanel"
             /\ help.props =
                  [message |-> "I'm here to help. What would you like to explore?",
                   showSuggestions |-> TRUE]
             /\ help.position = [area |-> "main", order |-> 0]
       /\ lastInstruction.layout = "centered"
       /\ lastInstruction.animation =
            [enter |-> "fadeIn", exit |-> "fadeOut", duration |-> 3]

\* a greeting below the confidence of its rule has been mapped to the help
\* panel
C16_Witness ==
    /\ Mapped
    /\ lastAnalysis.intent.type = "greeting"
    /\ lastAnalysis.intent.confidence = 50
    /\ TypesOf(lastInstruction) = <<"HelpPanel">>

(***************************************************************************)
(* C17: every instruction mapToUIInstructions returns has at least one     *)
(* component, also when the only matching rule is a Modify rule.           *)
(***************************************************************************)
C17_NeverEmptyInstruction ==
    Mapped => /\ "components" \in DOMAIN lastInstruction
              /\ Len(lastInstruction.components) >= 1

\* the declared minimum confidence of the rules that have one
MinimumOf == [greeting_rule |-> 70, browse_rule |-> 60, urgency_modifier |-> 80]

\* the component types a rule declares
DeclaredTypes(ruleId) ==
    LET instr == mappingRules[RuleIndex(ruleId)].instruction
    IN IF "components" \in DOMAIN instr
       THEN {instr.components[k].type : k \in DOMAIN instr.components}
       ELSE {}

(***************************************************************************)
(* C18: a rule whose declared minimum confidence is above the confidence   *)
(* of the intent contributes nothing: the instruction has none of its      *)
(* component types and is the instruction the mapper returns without that  *)
(* rule in its list.                                                       *)
(***************************************************************************)
C18_BelowMinimumContributesNothing ==
    Mapped =>
       \A ruleId \in DOMAIN MinimumOf :
          lastAnalysis.intent.confidence < MinimumOf[ruleId] =>
             /\ \A k \in DOMAIN lastInstruction.components :
                   lastInstruction.components[k].type \notin DeclaredTypes(ruleId)
             /\ \E stamps \in Stamps :
                   lastInstruction =
                      mapToUIInstructionsWith(
                          SelectSeq(mappingRules, LAMBDA rule : rule.id # ruleId),
                          lastAnalysis, stamps)

\* an urgent product_browse intent above the minimum of the browse rule and
\* below the minimum of the urgency rule has been mapped by the browse rule
C18_Witness ==
    /\ Mapped
    /\ lastAnalysis.intent.type = "product_browse"
    /\ lastAnalysis.intent.confidence = 65
    /\ "context" \in DOMAIN lastAnalysis
    /\ lastAnalysis.context.urgency = "high"
    /\ TypesOf(lastInstruction) = <<"ProductGrid", "FilterPanel">>

\* Scenario B: product_browse at confidence 0.75 with high urgency
ScenarioB ==
    /\ Mapped
    /\ lastAnalysis.intent.type = "product_browse"
    /\ lastAnalysis.intent.confidence = 75
    /\ "context" \in DOMAIN lastAnalysis
    /\ lastAnalysis.context.urgency = "high"

(***************************************************************************)
(* C19 as stated: the Scenario B intent gets the components of the browse  *)
(* rule (ProductGrid, FilterPanel) with the animation override of the      *)
(* urgency rule (duration 0.3, enter 'instant').                           *)
(***************************************************************************)
C19_ScenarioBUrgencyOverride ==
    ScenarioB =>
       /\ TypesOf(lastInstruction) = <<"ProductGrid", "FilterPanel">>
       /\ lastInstruction.animation.duration = 3
       /\ lastInstruction.animation.enter = "instant"

(***************************************************************************)
(* C19 as amended: the Scenario B intent matches the browse rule only,     *)
(* 0.75 not being above the 0.8 of the urgency rule; the instruction has   *)
(* the components of the browse rule with the browse rule's layout and     *)
(* animation (enter 'slideIn', duration 0.5, exit 'fadeOut' of the draft)  *)
(* and no override of the urgency rule.                                    *)
(***************************************************************************)
C19_ScenarioBBrowseOnly ==
    ScenarioB =>
       /\ TypesOf(lastInstruction) = <<"ProductGrid", "FilterPanel">>
       /\ lastInstruction.layout = "two-column"
       /\ lastInstruction.animation =
            [enter |-> "slideIn", exit |-> "fadeOut", duration |-> 5]
       /\ "props" \notin DOMAIN lastInstruction

\* the Scenario B intent, with entities that give filters, has been mapped
C19_Witness ==
    /\ ScenarioB
    /\ "color" \in DOMAIN lastAnalysis.entities
    /\ lastInstruction.components[1].props.filters.color = "red"

(***************************************************************************)
(* C20: a greeting at confidence 0.9 gets exactly two components, a        *)
(* WelcomeHero and then a SuggestionCards, and layout 'centered',          *)
(* whatever its entities and context.                                      *)
(***************************************************************************)
C20_ScenarioAGreeting ==
    (/\ lastInstruction # NoInstruction
     /\ lastAnalysis.intent.type = "greeting"
     /\ lastAnalysis.intent.confidence = 90)
    => /\ "error" \notin DOMAIN lastInstruction
       /\ TypesOf(lastInstruction) = <<"WelcomeHero", "SuggestionCards">>
       /\ lastInstruction.layout = "centered"

\* the greeting of Scenario A, without entities and context, has been mapped
C20_Witness ==
    /\ Mapped
    /\ lastAnalysis = [intent |-> [type |-> "greeting", confidence |-> 90]]
    /\ Len(lastInstruction.components) = 2

(***************************************************************************)
(* Vocabulary of the merge properties                                      *)
(***************************************************************************)
\* the merge has folded every rule without raising
MergeDone == mergeIndex = Len(mergeRules) /\ "error" \notin DOMAIN lastInstruction

\* this step folds the rule at mergeIndex + 1, and the fold does not raise
Folds == mergeIndex' = mergeIndex + 1 /\ "error" \notin DOMAIN lastInstruction'

FoldedInstruction == mergeRules[mergeIndex + 1].instruction

\* the folded Add rules that declare the field, by position in the list
AddRulesDeclaring(field) ==
    {i \in 1..mergeIndex : /\ mergeRules[i].instruction.action = "add"
                           /\ field \in DOMAIN mergeRules[i].instruction}

LastOf(S) == CHOOSE i \in S : \A j \in S : j <= i

\* C21 (as stated): once every matching rule is folded, the merged layout
\* and the merged animation are exactly the ones declared by the last Add
\* rule that declares the field, nothing of an earlier value being kept.
C21_LastAddRuleWins ==
    MergeDone =>
        \A field \in {"layout", "animation"} :
            AddRulesDeclaring(field) # {} =>
                lastInstruction[field] =
                    mergeRules[LastOf(AddRulesDeclaring(field))].instruction[field]

\* C21 (amended): folding an Add rule that declares a layout replaces the
\* draft's layout by it; folding one that declares an animation overwrites
\* the draft's animation field by field, the fields the rule does not
\* declare keeping the draft's earlier values; an undeclared field of the
\* rule leaves the draft's value alone.
C21_AddRuleOverwritesFieldwise ==
    [][(Folds /\ FoldedInstruction.action = "add") =>
          LET rule == FoldedInstruction
              before == lastInstruction.animation
              after == lastInstruction'.animation
          IN /\ lastInstruction'.layout =
                    IF "layout" \in DOMAIN rule THEN rule.layout
                    ELSE lastInstruction.layout
             /\ "animation" \notin DOMAIN rule => after = before
             /\ "animation" \in DOMAIN rule =>
                    /\ DOMAIN after = DOMAIN before \cup DOMAIN rule.animation
                    /\ \A f \in DOMAIN after :
                          after[f] = IF f \in DOMAIN rule.animation
                                     THEN rule.animation[f] ELSE before[f]]_vars

\* both the greeting rule and the browse rule were folded: the stagger of the
\* first and the default exit survive next to the fields of the second
C21_Witness ==
    /\ MergeDone
    /\ Len(mergeRules) = 2
    /\ mergeRules[1].id = "greeting_rule"
    /\ mergeRules[2].id = "browse_rule"
    /\ lastInstruction.layout = "two-column"
    /\ lastInstruction.animation =
          [enter |-> "slideIn", exit |-> "fadeOut", duration |-> 5, stagger |-> 2]

\* C22 (as stated): every component of the draft has for position.order the
\* number of components that were in the draft when it was appended, that
\* is its index in the merged list.
C22_OrderIsDraftIndex ==
    "error" \notin DOMAIN lastInstruction =>
        \A k \in DOMAIN lastInstruction.components :
            lastInstruction.components[k].position.order = k - 1

\* C22 (amended): every instance an Add rule appends to the draft has the
\* position its definition declares, area and order alike.
C22_PositionIsDeclared ==
    [][(Folds /\ FoldedInstruction.action = "add") =>
          LET defs == FieldOrEmpty(FoldedInstruction, "components")
              n == Len(lastInstruction.components)
          IN \A j \in DOMAIN defs :
                lastInstruction'.components[n + j].position = defs[j].position]_vars

\* the browse rule was folded: its FilterPanel sits at index 1 of the list
\* with the declared order 0
C22_Witness ==
    /\ MergeDone
    /\ mergeRules[Len(mergeRules)].id = "browse_rule"
    /\ LET last == lastInstruction.components[Len(lastInstruction.components)]
       IN /\ Len(lastInstruction.components) >= 2
          /\ last.type = "FilterPanel"
          /\ last.position = [area |-> "sidebar", order |-> 0]

\* the number of component definitions of the first n rules that are Add rules
RECURSIVE DefinitionCount(_)
DefinitionCount(n) ==
    IF n = 0 THEN 0
    ELSE DefinitionCount(n - 1)
         + (IF mergeRules[n].instruction.action = "add"
            THEN Len(FieldOrEmpty(mergeRules[n].instruction, "components"))
            ELSE 0)

\* C23: folding the matched rules left to right, the draft holds as many
\* components as the folded Add rules have definitions, and the component at
\* index k has animationDelay k stagger units (0.1 s each), one unit more
\* than its predecessor.
C23_CountAndStagger ==
    "error" \notin DOMAIN lastInstruction =>
        LET components == lastInstruction.components
        IN /\ Len(components) = DefinitionCount(mergeIndex)
           /\ \A k \in DOMAIN components : components[k].animationDelay = k - 1
           /\ \A k \in DOMAIN components :
                 k > 1 => components[k].animationDelay
                              = components[k - 1].animationDelay + 1

\* two Add rules of two definitions each were folded
C23_Witness ==
    /\ MergeDone
    /\ Len(mergeRules) = 2
    /\ \A i \in 1..2 : mergeRules[i].instruction.action = "add"
    /\ Len(lastInstruction.components) = 4
    /\ lastInstruction.components[4].animationDelay = 3

C25_ModifyIsTopLevelOnly ==
    [][(Folds /\ FoldedInstruction.action = "modify") =>
          LET modifications == FieldOrEmpty(FoldedInstruction, "modifications")
          IN /\ lastInstruction'.components = lastInstruction.components
             /\ DOMAIN lastInstruction' = DOMAIN lastInstruction \cup DOMAIN modifications
             /\ \A f \in DOMAIN lastInstruction' :
                   lastInstruction'[f] = IF f \in DOMAIN modifications
                                         THEN modifications[f]
                                         ELSE lastInstruction[f]]_vars

\* the urgency modifier was folded after the browse rule had added its two
\* components
C25_Witness ==
    /\ MergeDone
    /\ Len(mergeRules) = 2
    /\ mergeRules[1].id = "browse_rule"
    /\ mergeRules[2].id = "urgency_modifier"
    /\ Len(lastInstruction.components) = 2
    /\ "props" \in DOMAIN lastInstruction
    /\ lastInstruction.animation = [duration |-> 3, enter |-> "instant"]

\* the rules of the table whose condition throws on the analysis
ThrowingRules(analysis) ==
    {i \in DOMAIN mappingRules : conditionThrows(mappingRules[i].id, analysis)}

\* the table without them, in declaration order
RulesNotThrowing(analysis) ==
    SelectSeq(mappingRules, LAMBDA rule : ~conditionThrows(rule.id, analysis))

\* C26: when the condition of a rule throws on the analysis, the call
\* returns an instruction instead of raising, and that instruction is the
\* one the remaining rules of the table, evaluated in declaration order,
\* produce.
C26_ThrowingPredicateIsNoMatch ==
    (lastInstruction # NoInstruction /\ ThrowingRules(lastAnalysis) # {}) =>
        /\ "error" \notin DOMAIN lastInstruction
        /\ \E stamps \in Stamps :
              lastInstruction =
                  mapToUIInstructionsWith(RulesNotThrowing(lastAnalysis),
                                          lastAnalysis, stamps)

\* C27: a call of mapToUIInstructions on the analysis of an earlier call
\* returns the instruction the earlier call returned.
C27_ReplayYieldsSameInstruction ==
    [][(lastInstruction # NoInstruction /\ lastAnalysis' = lastAnalysis)
          => lastInstruction' = lastInstruction]_vars

(***************************************************************************)
(* Vocabulary of the layout properties                                     *)
(***************************************************************************)
\* the position the step leaves on the component with the id
PositionAfter(id) == MapGet(activeComponents', id).position

\* this step is the synchronous part of a Reorganize to the layout
Reorganizes(c, layout) ==
    /\ Starts(c, "reorganize")
    /\ "layout" \in DOMAIN calls'[c].instr
    /\ calls'[c].instr.layout = layout

\* C28: under layout 'two-column' every component whose type is FilterPanel
\* or NavigationPanel gets area 'sidebar' and every other component, of a
\* type the layout does not know included, gets area 'main'; within each
\* area the orders are 0, 1, 2, ... in the components' relative order in the
\* input sequence.
C28_TwoColumnAreas ==
    [][\A c \in CallIds :
          Reorganizes(c, "two-column") =>
             LET input == MapValues(activeComponents)
                 InSidebar(i) == input[i].type \in {"FilterPanel", "NavigationPanel"}
             IN \A i \in DOMAIN input :
                   /\ PositionAfter(input[i].id).area =
                         IF InSidebar(i) THEN "sidebar" ELSE "main"
                   /\ PositionAfter(input[i].id).order =
                         Cardinality({j \in 1..(i - 1) : InSidebar(j) = InSidebar(i)})]_vars

\* a two-column Reorganize has been applied to a main component, a
\* navigation panel, a component of a type the layout does not know and a
\* filter panel, in this order
C28_Witness ==
    \E c \in CallIds :
        /\ calls[c].pc = "returned"
        /\ calls[c].instr.action = "reorganize"
        /\ currentLayout = "two-column"
        /\ Len(activeComponents) = 4
        /\ [i \in 1..4 |-> activeComponents[i].value.type]
              = <<"ProductGrid", "NavigationPanel", "Carousel", "FilterPanel">>
        /\ [i \in 1..4 |-> activeComponents[i].value.position.area]
              = <<"main", "sidebar", "main", "sidebar">>
        /\ [i \in 1..4 |-> activeComponents[i].value.position.order]
              = <<0, 0, 1, 1>>

\* C29: under layout 'grid' the component at input index i gets area
\* 'grid', gridColumn (i mod 3) + 1 and gridRow floor(i / 3) + 1; so the
\* column is in 1..3 and no two components of the call share a cell.
C29_GridCells ==
    [][\A c \in CallIds :
          Reorganizes(c, "grid") =>
             LET input == MapValues(activeComponents)
                 Cell(i) == <<PositionAfter(input[i].id).gridRow,
                              PositionAfter(input[i].id).gridColumn>>
             IN /\ \A i \in DOMAIN input :
                      /\ PositionAfter(input[i].id).area = "grid"
                      /\ Cell(i) = <<((i - 1) \div 3) + 1, ((i - 1) % 3) + 1>>
                      /\ Cell(i)[2] \in 1..3
                /\ \A i, j \in DOMAIN input : i # j => Cell(i) # Cell(j)]_vars

\* a grid Reorganize has been applied to four components: the fourth opens
\* the second row
C29_Witness ==
    \E c \in CallIds :
        /\ calls[c].pc = "returned"
        /\ calls[c].instr.action = "reorganize"
        /\ currentLayout = "grid"
        /\ Len(activeComponents) >= 4
        /\ activeComponents[3].value.position.gridRow = 1
        /\ activeComponents[3].value.position.gridColumn = 3
        /\ activeComponents[4].value.position.gridRow = 2
        /\ activeComponents[4].value.position.gridColumn = 1

\* C30: in every state of the engine fed by the mapper, by Updates and by
\* Reorganizes, no two active components of one area have the same
\* position.order.
C30_OrderIsTotalPerArea ==
    \A i, j \in DOMAIN activeComponents :
        (/\ i # j
         /\ activeComponents[i].value.position.area
               = activeComponents[j].value.position.area)
            => activeComponents[i].value.position.order
                  # activeComponents[j].value.position.order

\* C31: the layout the snapshot reports is 'default' before any Reorganize;
\* the synchronous part of a Reorganize makes it the key of that Reorganize,
\* and no other step (of an Add, a Remove, an Update, a settlement, a
\* subscription or a registration) changes it.
C31_LayoutIsLastReorganizeKey ==
    /\ getState(activeComponents, currentLayout).layout = "default"
    /\ [][LET after == getState(activeComponents', currentLayout').layout
              before == getState(activeComponents, currentLayout).layout
          IN IF \E c \in CallIds : Starts(c, "reorganize")
             THEN \A c \in CallIds :
                     Starts(c, "reorganize") => after = LayoutOf(calls'[c].instr)
             ELSE after = before]_vars

\* an Add has passed its barrier after a Reorganize to two columns, and the
\* snapshot still reports the Reorganize's key
C31_Witness ==
    \E c \in CallIds :
        /\ calls[c].pc = "returned"
        /\ calls[c].instr.action = "add"
        /\ Len(activeComponents) >= 1
        /\ getState(activeComponents, currentLayout).layout = "two-column"

(***************************************************************************)
(* Vocabulary of the registry properties                                   *)
(***************************************************************************)
\* the names register has been called with
EverRegistered == {e.name : e \in registerLog}

\* the last register call made for the name
LastCall(name) == CHOOSE e \in registerLog : e.name = name

\* C32: after register(name, c2, m2?) the lookups for the name reflect that
\* registration alone: get returns c2 and getMetadata returns m2, nothing
\* when the call had no metadata; metadata of an earlier registration is
\* not returned next to the new capability.
C32_ReregistrationReplacesBoth ==
    \A name \in EverRegistered :
        /\ get(name) = LastCall(name).component
        /\ getMetadata(name) = LastCall(name).metadata

\* C33: after any sequence of register calls, for every name, has(name) is
\* true exactly when get(name) returns a capability, exactly when
\* getComponentNames lists the name, exactly when register was called with
\* the name; get of a name never registered returns undefined, and get of a
\* registered name returns the capability of the latest call.
C33_LookupsAgree ==
    \A name \in RegistryNames \cup {"NeverRegistered"} :
        LET registered == name \in EverRegistered
        IN /\ has(name) = registered
           /\ (get(name) # Undef) = registered
           /\ (name \in Range(getComponentNames)) = registered
           /\ registered => get(name) = LastCall(name).component
           /\ ~registered => get(name) = Undef

\* one name was registered at least twice (its metadata comes from an
\* earlier call than its capability), the other name not at all
C33_Witness ==
    /\ EverRegistered = {"ProductGrid"}
    /\ LastCall("ProductGrid").component = "GridViewV2"
    /\ LastCall("ProductGrid").metadata = Undef
    /\ getMetadata("ProductGrid") # Undef
    /\ get("ProductGrid") = "GridViewV2"
    /\ ~has("FilterPanel")

\* C34: for an intent whose type has an entry in the intent mapping and
\* whose confidence is below the entry's minConfidence, the manifest
\* mapIntentToComponents returns holds none of the entry's components.
C34_BelowMinConfidenceNoComponents ==
    (/\ lastManifest # NoManifest
     /\ lastIntent.type \in DOMAIN getIntentMapping
     /\ lastIntent.confidence < getIntentMapping[lastIntent.type].minConfidence)
        => \A k \in DOMAIN lastManifest.components :
              lastManifest.components[k].type
                 \notin Range(getIntentMapping[lastIntent.type].components)

\* C35: when a clear() call completes, the active set is empty and the
\* subscriber, if there is one, has been called exactly once, with the
\* snapshot of the empty set.
C35_ClearEmptiesAndNotifies ==
    [][\A c \in CallIds :
          (/\ calls[c].instr.action = "clear"
           /\ calls[c].pc = "awaiting"
           /\ calls'[c].pc = "done")
             => /\ activeComponents' = <<>>
                /\ updateCallback # Undef =>
                      delivery' = <<[to |-> updateCallback,
                                     state |-> getState(<<>>, currentLayout')]>>]_vars

\* a Remove call is awaiting the exit animation of the id
RemoveAwaitsExitOf(id) ==
    \E i \in DOMAIN animations :
        /\ animations[i].kind = "out"
        /\ animations[i].id = id
        /\ animations[i].owner \in CallIds
        /\ calls[animations[i].owner].pc = "awaiting"
        /\ calls[animations[i].owner].instr.action = "remove"

\* C36: while a Remove awaits the exit animation of an id, an instance that
\* an Add issued after the Remove has put in the map under that id (its
\* status is 'mounting': the Remove had set 'unmounting') is not deleted by
\* any step, so that it is there, mounted, when both calls have completed.
C36_RemoveSparesLaterInstance ==
    [][\A id \in Ids :
          (/\ MapHas(activeComponents, id)
           /\ MapGet(activeComponents, id).status = "mounting"
           /\ RemoveAwaitsExitOf(id))
             => MapHas(activeComponents', id)]_vars

\* C37: once processInstruction has applied the Add instruction the mapper
\* produced for an intent (the call is past its barrier and about to
\* notify), the layout of the engine's snapshot is the layout the
\* instruction carries.
C37_SnapshotHasInstructionLayout ==
    \A c \in CallIds :
        (/\ calls[c].pc = "returned"
         /\ calls[c].instr.action = "add"
         /\ "layout" \in DOMAIN calls[c].instr)
            => getState(activeComponents, currentLayout).layout = calls[c].instr.layout

\* the instruction has a known action and lacks the payload of that action
LacksPayload(instruction) ==
    \/ instruction.action = "add" /\ "components" \notin DOMAIN instruction
    \/ instruction.action = "remove" /\ "componentIds" \notin DOMAIN instruction
    \/ instruction.action = "update" /\ "updates" \notin DOMAIN instruction

\* C38: a call whose instruction has a known action but not the payload of
\* that action is applied as an empty batch: the step that issues it does
\* not reject the call and leaves the active set as it was.
C38_AbsentPayloadIsEmptyBatch ==
    [][\A c \in CallIds :
          (/\ calls[c].pc = "idle"
           /\ calls'[c].pc # "idle"
           /\ LacksPayload(calls'[c].instr))
             => /\ calls'[c].pc # "rejected"
                /\ activeComponents' = activeComponents]_vars

\* C39: in the assembly store no two entries of activeComponents have the
\* same id, whatever addComponents, removeComponents, updateComponent and
\* reset calls were made.
C39_StoreIdsUnique ==
    \A i, j \in 1..Len(store.activeComponents) :
        store.activeComponents[i].id = store.activeComponents[j].id => i = j

====
